---- MODULE Spec2Model ----
(***************************************************************************)
(* Causality-correlation engine of baby-explorer.                          *)
(*                                                                         *)
(* Two event loops run side by side.  The instrumented page (browser) runs *)
(* the value getter, the wrapped handlers, the fetch / XMLHttpRequest      *)
(* hooks and the grace timers (src/monitors/inputMonitor.ts and the        *)
(* evaluateOnNewDocument block of the RequestMonitor in src/scanner.ts).   *)
(* The host (Node) runs the exposed functions reportInputAccess and        *)
(* reportRequestMapping, the page.on("request" / "response" /              *)
(* "requestfailed") observers, the periodic sweep and the ResultAggregator.*)
(* What the page sends to the host (bridge calls and the request events of *)
(* the calls it dispatches) travels over one ordered session, modelled by  *)
(* the FIFO hostQueue: the host handles it in the order the page issued it.*)
(***************************************************************************)
EXTENDS Integers, Sequences, FiniteSets, TLC

(***************************************************************************)
(* Bounds of the model.                                                    *)
(***************************************************************************)
NumUrls == 2        \* distinct outbound targets
MaxCauses == 2      \* Spec: causes (value reads + wrapped-handler invocations)
MaxCalls == 2       \* Spec: network operations of one scan
MaxTicks == 2       \* Spec: clock advances
MaxQueue == 2       \* Spec: messages in flight from the page to the host
MaxDepth == 1       \* Spec: wrapped handlers executing at once
MaxStackCauses == 4 \* SpecStack: causes

(***************************************************************************)
(* Program constants.                                                      *)
(***************************************************************************)
MappingCapacity == 1000          \* urlActionMappings.size > 1000
MappingRetain == 500             \* entries.slice(-500)
SweepMappingThreshold == 50      \* urlActionMappings.size > 50
SweepMappingRetain == 25         \* entries.slice(-25)
StaleAfterMs == 5 * 60 * 1000    \* Date.now() - (5 * 60 * 1000)
StatusUnset == -1                \* status: -1
StatusFailed == -999             \* status: -999
SampleSize == 5                  \* unlinkedRequests.slice(0, 5)

\* The clock is observed at the granularity of the staleness threshold; it
\* starts at a positive epoch time (Date.now() is never 0).
TickMs == StaleAfterMs
StartMs == StaleAfterMs

Urls == 1..NumUrls
HttpCodes == {200}
Methods == {"POST"}
\* req.resourceType() of the resource a url denotes, when the page loads it
\* without a hook call
StaticTypeOf(url) ==
    CASE url = 1 -> "image"
      [] url = 2 -> "document"
      [] url = 3 -> "stylesheet"
      [] OTHER -> "script"

\* window.__currentActionId === undefined
NoId == [p |-> "none", ts |-> 0, r |-> 0]

\* `${prefix}_${Date.now()}_${Math.random().toString(36).substr(2, 9)}`: the
\* prefix, the millisecond clock and a random suffix, fresh for every id.
MakeId(prefix, ms, rnd) == [p |-> prefix, ts |-> ms, r |-> rnd]

Last(s) == s[Len(s)]
ButLast(s) == SubSeq(s, 1, Len(s) - 1)

VARIABLES
    actionIdStack,      \* window.__actionIdStack
    currentActionId,    \* window.__currentActionId
    timers,             \* pending setTimeout(..., 100) callbacks, in deadline order
    running,            \* wrapper invocations whose original handler is executing
    xhr,                \* the XMLHttpRequest opened and not yet sent, if any:
                        \* its _capturedActionId and _requestUrl
    requestActionMap,   \* the page's WeakMap: call -> captured cause id
    idCount,            \* ids generated by the page so far
    calls,              \* network operations handed to the underlying transport
    hostQueue,          \* page -> host messages not yet handled, in order of issue
    urlActionMappings,  \* host Map url -> actionId, in insertion order
    pendingRequests,    \* host Map transport id -> Request record (by reference)
    requests,           \* scanData.requests
    parts,              \* scanData.parts
    actionIdSet,        \* ResultAggregator.actionIdSet
    resourcePartCounter,\* RequestMonitor.resourcePartCounter
    synthCount,         \* synthetic ids generated by the host so far
    now,                \* Date.now()
    ticks,              \* clock advances so far
    recordOf,           \* history: call -> index of the Request created for it
    issuedUnder,        \* history: call -> the current cause when it was dispatched
    hookCall,           \* the latest call of a hooked function, at the level of its
                        \* arguments: what the caller supplied, what the original
                        \* function received and what the caller got back
    registered,         \* the listeners the page has registered, in order
    handleEvent,        \* the wrappers now around the handleEvent method of the
                        \* page's listener object, innermost first
    dispatched,         \* the latest event delivered to a registered listener
    pc,                 \* Scanner.start: the statement it is at
    failedAt,           \* Scanner.start: the statement whose promise rejected, if any
    scanFinished,       \* Scanner.scanFinished
    finishCalls,        \* calls of finishScan so far
    navigated,          \* page.goto has been issued
    saves,              \* times saveResults has written the results
    closed,             \* browser.close has completed
    results,            \* the value getResults last returned to a caller
    writes              \* assignments a caller made to a value getResults returned

browserVars == <<actionIdStack, currentActionId, timers, running, xhr,
                 requestActionMap, idCount, calls>>
hostVars == <<urlActionMappings, pendingRequests, requests, parts, actionIdSet,
              resourcePartCounter, synthCount>>
ledgerVars == <<requests, parts, actionIdSet, resourcePartCounter, synthCount>>
clockVars == <<now, ticks>>
histVars == <<recordOf, issuedUnder>>
listenVars == <<registered, handleEvent, dispatched>>
scanVars == <<pc, failedAt, scanFinished, finishCalls, navigated, saves, closed>>
aliasVars == <<results, writes>>
passVars == <<hookCall, listenVars, scanVars, aliasVars>>
vars == <<browserVars, hostQueue, hostVars, clockVars, histVars, passVars>>

(***************************************************************************)
(* The page: causal context stack (inputMonitor.ts).                       *)
(***************************************************************************)
InputIds == {"id=username"}
HandlerTypes == {"form.addEventListener.submit"}

\* window.__actionIdStack.push(actionId)
Push(stack, id) == Append(stack, id)

\* stack.length > 0 ? stack[stack.length - 1] : undefined
TopOrNone(stack) == IF Len(stack) > 0 THEN Last(stack) ELSE NoId

\* a pop that tests only stack.length > 0, without comparing identities
IsTopUnguarded(stack, id) == Len(stack) > 0

\* the setTimeout callback's test: stack.length > 0 && stack[length - 1] === actionId
IsTop(stack, id) == Len(stack) > 0 /\ Last(stack) = id

\* the setTimeout callback: guarded pop of the stack
PopIfTop(stack, id) == IF IsTop(stack, id) THEN ButLast(stack) ELSE stack

\* a pop that clears __currentActionId instead of restoring the entry beneath
CurrentAfterPopCleared(stack, cur, id) ==
    IF IsTop(stack, id) THEN NoId ELSE cur

\* the setTimeout callback: __currentActionId is reassigned only inside the guard
CurrentAfterPop(stack, cur, id) ==
    IF IsTop(stack, id) THEN TopOrNone(ButLast(stack)) ELSE cur

\* a report that leaves out its third argument, the cause id
ActionMsgWithoutId(type, data, id) ==
    [k |-> "action", type |-> type, data |-> data, id |-> NoId, url |-> 0, rid |-> 0]

\* window.reportInputAccess(type, data, actionId) as sent over the bridge
ActionMsg(type, data, id) == [k |-> "action", type |-> type, data |-> data, id |-> id,
                              url |-> 0, rid |-> 0]
\* window.reportRequestMapping(url, actionId) as sent over the bridge
MappingMsg(url, id) == [k |-> "mapping", type |-> "", data |-> "", id |-> id,
                        url |-> url, rid |-> 0]
\* the request event of a call handed to the underlying transport
RequestMsg(rid) == [k |-> "request", type |-> "", data |-> "", id |-> NoId,
                    url |-> 0, rid |-> rid]

\* HTMLInputElement.prototype.value getter
ValueRead(inputId) ==
    /\ LET actionId == MakeId("action", now, idCount + 1) IN
        /\ actionIdStack' = Push(actionIdStack, actionId)
        /\ currentActionId' = actionId
        /\ hostQueue' = Append(hostQueue, ActionMsg("input.value", inputId, actionId))
        /\ timers' = Append(timers, actionId)
    /\ idCount' = idCount + 1
    /\ UNCHANGED <<passVars, running, xhr, requestActionMap, calls, hostVars,
                   clockVars, histVars>>

\* a wrapper that pushes and reports but leaves __currentActionId as it was
HandlerEnterCurrentUnset(actionType, elementId) ==
    /\ LET actionId == MakeId("action", now, idCount + 1) IN
        /\ actionIdStack' = Push(actionIdStack, actionId)
        /\ hostQueue' = Append(hostQueue, ActionMsg(actionType, elementId, actionId))
        /\ running' = Append(running, actionId)
    /\ idCount' = idCount + 1
    /\ UNCHANGED <<passVars, currentActionId, timers, xhr, requestActionMap, calls,
                   hostVars, clockVars, histVars>>

\* wrapHandler's wrapper up to handler.apply(this, args): push, report, run
HandlerEnter(actionType, elementId) ==
    /\ LET actionId == MakeId("action", now, idCount + 1) IN
        /\ actionIdStack' = Push(actionIdStack, actionId)
        /\ currentActionId' = actionId
        /\ hostQueue' = Append(hostQueue, ActionMsg(actionType, elementId, actionId))
        /\ running' = Append(running, actionId)
    /\ idCount' = idCount + 1
    /\ UNCHANGED <<passVars, timers, xhr, requestActionMap, calls, hostVars,
                   clockVars, histVars>>

\* wrapHandler's wrapper after handler.apply returned: schedule the guarded pop
HandlerReturn ==
    /\ running # <<>>
    /\ timers' = Append(timers, Last(running))
    /\ running' = ButLast(running)
    /\ UNCHANGED <<passVars, actionIdStack, currentActionId, xhr, requestActionMap, idCount,
                   calls, hostQueue, hostVars, clockVars, histVars>>

\* handler.apply throws: the wrapper is left before setTimeout is reached
HandlerThrow ==
    /\ running # <<>>
    /\ running' = ButLast(running)
    /\ UNCHANGED <<passVars, actionIdStack, currentActionId, timers, xhr, requestActionMap,
                   idCount, calls, hostQueue, hostVars, clockVars, histVars>>

\* a grace timer fires; timers never interrupt a running handler
TimerFire ==
    /\ running = <<>>
    /\ timers # <<>>
    /\ LET actionId == Head(timers) IN
        /\ actionIdStack' = PopIfTop(actionIdStack, actionId)
        /\ currentActionId' = CurrentAfterPop(actionIdStack, currentActionId, actionId)
    /\ timers' = Tail(timers)
    /\ UNCHANGED <<passVars, running, xhr, requestActionMap, idCount, calls, hostQueue,
                   hostVars, clockVars, histVars>>

(***************************************************************************)
(* The page: outbound-call hooks (scanner.ts, evaluateOnNewDocument).      *)
(***************************************************************************)
\* a network operation as the transport and the host observer see it; outcome
\* is how the network resolved it (0: not yet, an HTTP code, or StatusFailed)
Call(url, resourceType, method) ==
    [url |-> url, resourceType |-> resourceType, method |-> method,
     phase |-> "sent", outcome |-> 0, observedAt |-> 0]

\* a hook that reports without testing the captured id
TruthyAlways(id) == TRUE

\* `if (currentActionId && window.reportRequestMapping)`: an id is a non-empty
\* string, undefined is falsy; the bridge function is always exposed
Truthy(id) == id # NoId

\* a hook that calls the original fetch / send first and reports afterwards
HookMessagesDispatchFirst(url, actionId, rid) ==
    IF Truthy(actionId)
    THEN <<RequestMsg(rid), MappingMsg(url, actionId)>>
    ELSE <<RequestMsg(rid)>>

\* What a hook sends, in the order of its statements: reportRequestMapping
\* first (only with a captured cause), then the original fetch / send, whose
\* request event follows.
HookMessages(url, actionId, rid) ==
    IF Truthy(actionId)
    THEN <<MappingMsg(url, actionId), RequestMsg(rid)>>
    ELSE <<RequestMsg(rid)>>

\* requestActionMap.set(promise | this, actionId), only with a captured cause
Correlate(map, rid, actionId) ==
    IF Truthy(actionId) THEN map @@ (rid :> actionId) ELSE map

\* window.fetch hook
Fetch(url, method) ==
    /\ LET rid == Len(calls) + 1
           msgs == HookMessages(url, currentActionId, rid) IN
        /\ hostQueue' = hostQueue \o msgs
        /\ calls' = Append(calls, Call(url, "fetch", method))
        /\ requestActionMap' = Correlate(requestActionMap, rid, currentActionId)
        /\ issuedUnder' = issuedUnder @@ (rid :> currentActionId)
    /\ UNCHANGED <<passVars, actionIdStack, currentActionId, timers, running, xhr, idCount,
                   hostVars, clockVars, recordOf>>

\* no XMLHttpRequest is open
NoXhr == [state |-> "unsent", capturedActionId |-> NoId, requestUrl |-> 0,
          method |-> "GET"]

\* XMLHttpRequest.prototype.open hook: capture the cause and the url
XhrOpen(url, method) ==
    /\ xhr' = [state |-> "opened", capturedActionId |-> currentActionId,
               requestUrl |-> url, method |-> method]
    /\ UNCHANGED <<passVars, actionIdStack, currentActionId, timers, running,
                   requestActionMap, idCount, calls, hostQueue, hostVars,
                   clockVars, histVars>>

\* a send hook that reads the cause when send is called
XhrSendCurrentCause ==
    /\ xhr.state = "opened"
    /\ LET rid == Len(calls) + 1
           msgs == HookMessages(xhr.requestUrl, currentActionId, rid) IN
        /\ hostQueue' = hostQueue \o msgs
        /\ calls' = Append(calls, Call(xhr.requestUrl, "xhr", xhr.method))
        /\ requestActionMap' = Correlate(requestActionMap, rid, currentActionId)
        /\ issuedUnder' = issuedUnder @@ (rid :> currentActionId)
    /\ xhr' = NoXhr
    /\ UNCHANGED <<passVars, actionIdStack, currentActionId, timers, running, idCount,
                   hostVars, clockVars, recordOf>>

\* XMLHttpRequest.prototype.send hook on an opened request
XhrSend ==
    /\ xhr.state = "opened"
    /\ LET rid == Len(calls) + 1
           msgs == HookMessages(xhr.requestUrl, xhr.capturedActionId, rid) IN
        /\ hostQueue' = hostQueue \o msgs
        /\ calls' = Append(calls, Call(xhr.requestUrl, "xhr", xhr.method))
        /\ requestActionMap' = Correlate(requestActionMap, rid, xhr.capturedActionId)
        /\ issuedUnder' = issuedUnder @@ (rid :> currentActionId)
    /\ xhr' = NoXhr
    /\ UNCHANGED <<passVars, actionIdStack, currentActionId, timers, running, idCount,
                   hostVars, clockVars, recordOf>>

\* the page loads a resource without calling a hooked API
PageLoad(url) ==
    /\ hostQueue' = Append(hostQueue, RequestMsg(Len(calls) + 1))
    /\ calls' = Append(calls, Call(url, StaticTypeOf(url), "GET"))
    /\ issuedUnder' = issuedUnder @@ ((Len(calls) + 1) :> currentActionId)
    /\ UNCHANGED <<passVars, actionIdStack, currentActionId, timers, running, xhr,
                   requestActionMap, idCount, hostVars, clockVars, recordOf>>

(***************************************************************************)
(* The host: Mapping Store (scanner.ts, reportRequestMapping).             *)
(* A JS Map is its entries in insertion order; set() of a present key      *)
(* overwrites the value in place and keeps the key's position.             *)
(***************************************************************************)
MapHas(m, url) == \E i \in 1..Len(m) : m[i].url = url
MapGet(m, url) == m[CHOOSE i \in 1..Len(m) : m[i].url = url].actionId
MapSet(m, url, id) ==
    IF MapHas(m, url)
    THEN [i \in 1..Len(m) |-> IF m[i].url = url THEN [url |-> url, actionId |-> id]
                                                ELSE m[i]]
    ELSE Append(m, [url |-> url, actionId |-> id])

\* a slice that keeps the first n entries instead of the last n
SliceFirst(s, n) == IF Len(s) <= n THEN s ELSE SubSeq(s, 1, n)

\* entries.slice(-n)
SliceLast(s, n) == IF Len(s) <= n THEN s ELSE SubSeq(s, Len(s) - n + 1, Len(s))

\* a report that sets the entry and never evicts
ReportRequestMappingNoEviction(m, url, id) == MapSet(m, url, id)

\* reportRequestMapping(url, actionId): set, then the insert-triggered eviction
ReportRequestMapping(m, url, id) ==
    LET m1 == MapSet(m, url, id) IN
    IF Len(m1) > MappingCapacity THEN SliceLast(m1, MappingRetain) ELSE m1

(***************************************************************************)
(* The host: ResultAggregator (resultAggregator.ts).                       *)
(***************************************************************************)
MainPart == [t |-> "html", n |-> 0]                \* "part_html_main"
PartId(resourceType, n) == [t |-> resourceType, n |-> n]  \* `part_${type}_${n}`

PartIndex(ps, partId) == CHOOSE i \in 1..Len(ps) : ps[i].id = partId
HasPart(ps, partId) == \E i \in 1..Len(ps) : ps[i].id = partId

\* an addAction that never looks for the part and always pushes a new one
AddActionNewPart(ps, partId, action, partType) ==
    Append(ps, [id |-> partId, type |-> partType, actions |-> <<action>>])

\* an addAction that pushes the Action on the newest part of the ledger
AddActionLastPart(ps, partId, action, partType) ==
    LET ps1 == IF ps # <<>> THEN ps
               ELSE Append(ps, [id |-> partId, type |-> partType, actions |-> <<>>])
    IN [ps1 EXCEPT ![Len(ps1)].actions = Append(@, action)]

\* ResultAggregator.addAction
AddAction(ps, partId, action, partType) ==
    LET ps1 == IF HasPart(ps, partId) THEN ps
               ELSE Append(ps, [id |-> partId, type |-> partType, actions |-> <<>>])
        i == PartIndex(ps1, partId)
    IN [ps1 EXCEPT ![i].actions = Append(@, action)]

\* an addResourcePart without the existingPart check
AddResourcePartUnchecked(ps, partId, partType) ==
    Append(ps, [id |-> partId, type |-> partType, actions |-> <<>>])

\* ResultAggregator.addResourcePart
AddResourcePart(ps, partId, partType) ==
    IF HasPart(ps, partId) THEN ps
    ELSE Append(ps, [id |-> partId, type |-> partType, actions |-> <<>>])

\* an addRequest that puts the record first (unshift) instead of last (push)
AddRequestFirst(rs, request) == <<request>> \o rs

\* ResultAggregator.addRequest
AddRequest(rs, request) == Append(rs, request)

\* RequestMonitor.createResourcePart: resourceTypeMap[type] || 'other'
PartTypes == {"js", "css", "image", "font", "other"}
ResourceTypeMap(puppeteerResourceType) ==
    CASE puppeteerResourceType = "document" -> "html"
      [] puppeteerResourceType = "script" -> "js"
      [] puppeteerResourceType = "stylesheet" -> "css"
      [] puppeteerResourceType = "image" -> "image"
      [] puppeteerResourceType = "font" -> "font"
      [] OTHER -> "other"

\* RequestMonitor.createResourcePart: the counter after the call
CounterAfterCreate(counter, puppeteerResourceType) ==
    LET t == ResourceTypeMap(puppeteerResourceType) IN
    IF t = "html" THEN counter ELSE [counter EXCEPT ![t] = @ + 1]

\* RequestMonitor.createResourcePart: the parts after the call
PartsAfterCreate(ps, counter, puppeteerResourceType) ==
    LET t == ResourceTypeMap(puppeteerResourceType) IN
    IF t = "html" THEN ps ELSE AddResourcePart(ps, PartId(t, counter[t] + 1), t)

\* ResultAggregator.validateLinkage
LinkedRequests(rs, ids) == Cardinality({i \in 1..Len(rs) : rs[i].actionId \in ids})
ValidateLinkage(rs, ids) ==
    [linkedRequests |-> LinkedRequests(rs, ids),
     unlinkedRequests |-> Len(rs) - LinkedRequests(rs, ids),
     totalActions |-> Cardinality(ids)]

\* ResultAggregator.getUnlinkedRequests
RECURSIVE Filter(_, _)
Filter(rs, ids) ==
    IF rs = <<>> THEN <<>>
    ELSE IF Head(rs).actionId \in ids THEN Filter(Tail(rs), ids)
         ELSE <<Head(rs)>> \o Filter(Tail(rs), ids)
GetUnlinkedRequests(rs, ids) == Filter(rs, ids)

\* a rate computed as x / y, without the factor 100
PercentUnscaled(x, y) ==
    IF y = 0 THEN [kind |-> "NaN", num |-> 0, den |-> 1]
    ELSE [kind |-> "finite", num |-> x, den |-> y]

\* JS number arithmetic x / y * 100 on non-negative integers: 0 / 0 is NaN,
\* x / 0 is Infinity for x > 0; otherwise the quotient, kept as the exact
\* fraction num / den.
NaN == [kind |-> "NaN", num |-> 0, den |-> 1]
Infinity == [kind |-> "Infinity", num |-> 0, den |-> 1]
Percent(x, y) ==
    IF y = 0 THEN (IF x = 0 THEN NaN ELSE Infinity)
    ELSE [kind |-> "finite", num |-> x * 100, den |-> y]

\* ResultAggregator.getLinkageStats
GetLinkageStats(rs, ids) ==
    LET validation == ValidateLinkage(rs, ids) IN
    [linkedRequests |-> validation.linkedRequests,
     unlinkedRequests |-> validation.unlinkedRequests,
     totalActions |-> validation.totalActions,
     linkageRate |-> Percent(validation.linkedRequests, Len(rs)),
     unlinkedRequestSample |->
        SubSeq(GetUnlinkedRequests(rs, ids), 1,
               IF Len(GetUnlinkedRequests(rs, ids)) < SampleSize
               THEN Len(GetUnlinkedRequests(rs, ids)) ELSE SampleSize)]

(***************************************************************************)
(* The host: handlers of what the page sent (in order of issue).           *)
(***************************************************************************)
NextMsg == Head(hostQueue)

\* the exposed reportInputAccess: `actionId || action_...` then addAction
HostReportInputAccess ==
    /\ hostQueue # <<>>
    /\ NextMsg.k = "action"
    /\ LET m == NextMsg
           finalActionId == IF Truthy(m.id) THEN m.id
                            ELSE MakeId("action", now, synthCount + 1)
           action == [actionId |-> finalActionId, type |-> m.type, data |-> m.data]
       IN /\ parts' = AddAction(parts, MainPart, action, "html")
          /\ actionIdSet' = actionIdSet \cup {finalActionId}
          /\ synthCount' = IF Truthy(m.id) THEN synthCount ELSE synthCount + 1
    /\ hostQueue' = Tail(hostQueue)
    /\ UNCHANGED <<passVars, browserVars, urlActionMappings, pendingRequests, requests,
                   resourcePartCounter, clockVars, histVars>>

\* the exposed reportRequestMapping
HostReportRequestMapping ==
    /\ hostQueue # <<>>
    /\ NextMsg.k = "mapping"
    /\ urlActionMappings' =
           ReportRequestMapping(urlActionMappings, NextMsg.url, NextMsg.id)
    /\ hostQueue' = Tail(hostQueue)
    /\ UNCHANGED <<passVars, browserVars, pendingRequests, ledgerVars, clockVars, histVars>>

\* an observer that labels uncaused requests with the action_ prefix
RequestActionIdActionPrefix(m, url, ms, rnd) ==
    IF MapHas(m, url) THEN MapGet(m, url) ELSE MakeId("action", ms, rnd)

\* page.on("request"): the actionId of the new record
RequestActionId(m, url, ms, rnd) ==
    IF MapHas(m, url) THEN MapGet(m, url) ELSE MakeId("http", ms, rnd)

\* Map.delete(key)
MapDelete(p, key) == [r \in DOMAIN p \ {key} |-> p[r]]

\* Map.delete(url) on the Mapping Store
MapRemove(m, url) == SelectSeq(m, LAMBDA e : e.url # url)

\* a request observer that deletes the mapping it used
HostRequestConsumesMapping ==
    /\ hostQueue # <<>>
    /\ NextMsg.k = "request"
    /\ LET rid == NextMsg.rid
           req == calls[rid]
           actionId == RequestActionId(urlActionMappings, req.url, now, synthCount + 1)
           requestRecord == [actionId |-> actionId, url |-> req.url,
                             requestSource |-> req.resourceType,
                             method |-> req.method, status |-> StatusUnset]
       IN /\ synthCount' = IF MapHas(urlActionMappings, req.url) THEN synthCount
                                                                ELSE synthCount + 1
          /\ parts' = PartsAfterCreate(parts, resourcePartCounter, req.resourceType)
          /\ resourcePartCounter' = CounterAfterCreate(resourcePartCounter, req.resourceType)
          /\ requests' = AddRequest(requests, requestRecord)
          /\ pendingRequests' = pendingRequests @@ (rid :> Len(requests) + 1)
          /\ recordOf' = recordOf @@ (rid :> Len(requests) + 1)
          /\ calls' = [calls EXCEPT ![rid].phase = "observed", ![rid].observedAt = now]
          /\ urlActionMappings' = MapRemove(urlActionMappings, req.url)
    /\ hostQueue' = Tail(hostQueue)
    /\ UNCHANGED <<passVars, actionIdStack, currentActionId, timers, running, xhr,
                   requestActionMap, idCount, actionIdSet, clockVars, issuedUnder>>

\* page.on("request")
HostRequest ==
    /\ hostQueue # <<>>
    /\ NextMsg.k = "request"
    /\ LET rid == NextMsg.rid
           req == calls[rid]
           actionId == RequestActionId(urlActionMappings, req.url, now, synthCount + 1)
           requestRecord == [actionId |-> actionId, url |-> req.url,
                             requestSource |-> req.resourceType,
                             method |-> req.method, status |-> StatusUnset]
       IN /\ synthCount' = IF MapHas(urlActionMappings, req.url) THEN synthCount
                                                                ELSE synthCount + 1
          /\ parts' = PartsAfterCreate(parts, resourcePartCounter, req.resourceType)
          /\ resourcePartCounter' = CounterAfterCreate(resourcePartCounter, req.resourceType)
          /\ requests' = AddRequest(requests, requestRecord)
          /\ pendingRequests' = pendingRequests @@ (rid :> Len(requests) + 1)
          /\ recordOf' = recordOf @@ (rid :> Len(requests) + 1)
          /\ calls' = [calls EXCEPT ![rid].phase = "observed", ![rid].observedAt = now]
    /\ hostQueue' = Tail(hostQueue)
    /\ UNCHANGED <<passVars, actionIdStack, currentActionId, timers, running, xhr,
                   requestActionMap, idCount, urlActionMappings, actionIdSet,
                   clockVars, issuedUnder>>

\* scanData.requests.find(r => r.url === url && r.status === -1): its index, 0 if none
FindUnresolved(rs, url) ==
    IF \E i \in 1..Len(rs) : rs[i].url = url /\ rs[i].status = StatusUnset
    THEN CHOOSE i \in 1..Len(rs) :
            /\ rs[i].url = url /\ rs[i].status = StatusUnset
            /\ \A j \in 1..(i - 1) : ~(rs[j].url = url /\ rs[j].status = StatusUnset)
    ELSE 0

\* a response handler that looks the record up by url even when the
\* transport identifier is tracked
RequestsAfterResponseByUrl(rs, pending, rid, url, code) ==
    IF FindUnresolved(rs, url) # 0
    THEN [rs EXCEPT ![FindUnresolved(rs, url)].status = code]
    ELSE rs

\* page.on("response"): the ledger after the handler
RequestsAfterResponse(rs, pending, rid, url, code) ==
    IF rid \in DOMAIN pending
    THEN [rs EXCEPT ![pending[rid]].status = code]
    ELSE IF FindUnresolved(rs, url) # 0
         THEN [rs EXCEPT ![FindUnresolved(rs, url)].status = code]
         ELSE rs

\* page.on("response"); it follows the request event of the same operation
HostResponse(rid, code) ==
    /\ rid \in 1..Len(calls)
    /\ calls[rid].phase = "observed"
    /\ requests' = RequestsAfterResponse(requests, pendingRequests, rid,
                                         calls[rid].url, code)
    /\ pendingRequests' = MapDelete(pendingRequests, rid)
    /\ calls' = [calls EXCEPT ![rid].phase = "done", ![rid].outcome = code]
    /\ UNCHANGED <<passVars, actionIdStack, currentActionId, timers, running, xhr,
                   requestActionMap, idCount, hostQueue, urlActionMappings, parts,
                   actionIdSet, resourcePartCounter, synthCount, clockVars, histVars>>

\* page.on("requestfailed"): the actionId of a record created by the fallback
FailedActionId(m, url, ms, rnd) ==
    IF MapHas(m, url) THEN MapGet(m, url) ELSE MakeId("failed", ms, rnd)

\* a requestfailed fallback that appends its record without a status value
RequestsAfterFailureNoStatus(rs, pending, rid, req, m, ms, rnd) ==
    IF rid \in DOMAIN pending
    THEN [rs EXCEPT ![pending[rid]].status = StatusFailed]
    ELSE AddRequest(rs, [actionId |-> FailedActionId(m, req.url, ms, rnd),
                         url |-> req.url, requestSource |-> req.resourceType,
                         method |-> req.method, status |-> 0])

\* page.on("requestfailed"): the ledger after the handler
RequestsAfterFailure(rs, pending, rid, req, m, ms, rnd) ==
    IF rid \in DOMAIN pending
    THEN [rs EXCEPT ![pending[rid]].status = StatusFailed]
    ELSE AddRequest(rs, [actionId |-> FailedActionId(m, req.url, ms, rnd),
                         url |-> req.url, requestSource |-> req.resourceType,
                         method |-> req.method, status |-> StatusFailed])

\* page.on("requestfailed"); it follows the request event of the same operation
HostRequestFailed(rid) ==
    /\ rid \in 1..Len(calls)
    /\ calls[rid].phase = "observed"
    /\ requests' = RequestsAfterFailure(requests, pendingRequests, rid, calls[rid],
                                        urlActionMappings, now, synthCount + 1)
    /\ synthCount' = IF rid \in DOMAIN pendingRequests
                        \/ MapHas(urlActionMappings, calls[rid].url)
                     THEN synthCount ELSE synthCount + 1
    /\ pendingRequests' = MapDelete(pendingRequests, rid)
    /\ calls' = [calls EXCEPT ![rid].phase = "done", ![rid].outcome = StatusFailed]
    /\ UNCHANGED <<passVars, actionIdStack, currentActionId, timers, running, xhr,
                   requestActionMap, idCount, hostQueue, urlActionMappings, parts,
                   actionIdSet, resourcePartCounter, clockVars, histVars>>

(***************************************************************************)
(* The host: periodic sweep (scanner.ts, setInterval) and the clock.       *)
(***************************************************************************)
\* parseInt(request.actionId.split('_')[1]): the millisecond field of the id
IdTimestamp(id) == id.ts

\* `timestamp && timestamp < fiveMinutesAgo`
IsStale(id, ms) == IdTimestamp(id) # 0 /\ IdTimestamp(id) < ms - StaleAfterMs

\* the sweep of pendingRequests
SweepPending(pending, rs, ms) ==
    [r \in {q \in DOMAIN pending : ~IsStale(rs[pending[q]].actionId, ms)} |-> pending[r]]

\* a sweep that keeps the oldest entries
SweepMappingsKeepFirst(m) ==
    IF Len(m) > SweepMappingThreshold THEN SliceFirst(m, SweepMappingRetain) ELSE m

\* the sweep of urlActionMappings
SweepMappings(m) ==
    IF Len(m) > SweepMappingThreshold THEN SliceLast(m, SweepMappingRetain) ELSE m

Sweep ==
    /\ pendingRequests' = SweepPending(pendingRequests, requests, now)
    /\ urlActionMappings' = SweepMappings(urlActionMappings)
    /\ UNCHANGED <<passVars, browserVars, hostQueue, ledgerVars, clockVars, histVars>>

\* The clock advances by one quantum.  A grace timer (100 ms), a running
\* handler and a message on its way to the host all complete within a
\* quantum, so none of them is outstanding across a clock advance.
Tick ==
    /\ timers = <<>>
    /\ running = <<>>
    /\ hostQueue = <<>>
    /\ now' = now + TickMs
    /\ ticks' = ticks + 1
    /\ UNCHANGED <<passVars, browserVars, hostQueue, hostVars, histVars>>

\* Events of an operation no request event was handled for (a request that
\* was in flight before the observers were attached): its transport id, 0
\* here, is no key of pendingRequests.
\* page.on("response") for an operation whose request event the host never
\* handled: pendingRequests.get gives undefined, the url fallback runs
HostResponseUnseen(url, code) ==
    /\ requests' = RequestsAfterResponse(requests, pendingRequests, 0, url, code)
    /\ UNCHANGED <<passVars, browserVars, hostQueue, urlActionMappings, pendingRequests, parts,
                   actionIdSet, resourcePartCounter, synthCount, clockVars, histVars>>

\* page.on("requestfailed") for an operation whose request event the host
\* never handled: the fallback creates the record
HostRequestFailedUnseen(url) ==
    /\ requests' = RequestsAfterFailure(requests, pendingRequests, 0,
                                        Call(url, StaticTypeOf(url), "GET"),
                                        urlActionMappings, now, synthCount + 1)
    /\ synthCount' = IF MapHas(urlActionMappings, url) THEN synthCount ELSE synthCount + 1
    /\ UNCHANGED <<passVars, browserVars, hostQueue, urlActionMappings, pendingRequests, parts,
                   actionIdSet, resourcePartCounter, clockVars, histVars>>

(***************************************************************************)
(* The hooks as functions of the caller's argument list (scanner.ts,       *)
(* 170-239).  A JavaScript value is a record of its kind and content; a    *)
(* native function of the browser sees its declared parameters, a missing  *)
(* one as undefined, and rejects a call with fewer than the required ones. *)
(***************************************************************************)
MaxArgs == 3
PassUrls == {1}
JsUndefined == [k |-> "undefined", v |-> 0]
JsNull == [k |-> "null", v |-> 0]
JsString(u) == [k |-> "string", v |-> u]
JsUrl(u) == [k |-> "URL", v |-> u]
JsRequest(u) == [k |-> "Request", v |-> u]
JsValues ==
    {JsUndefined, JsNull} \cup {JsString(u) : u \in PassUrls}
        \cup {JsUrl(u) : u \in PassUrls} \cup {JsRequest(u) : u \in PassUrls}
ArgLists == UNION {[1..n -> JsValues] : n \in 0..MaxArgs}

\* the i-th argument of a call: undefined when the caller did not supply it
Arg(args, i) == IF i <= Len(args) THEN args[i] ELSE JsUndefined

\* fetch(input, init?), open(method, url, async?, username?, password?),
\* send(body?)
Required(fn) == CASE fn = "fetch" -> 1 [] fn = "open" -> 2 [] OTHER -> 0
Declared(fn) == CASE fn = "fetch" -> 2 [] fn = "open" -> 5 [] OTHER -> 1

\* what the original function returns: fetch a promise for this very call,
\* open and send undefined
ReturnOf(fn, vals) ==
    IF fn = "fetch" THEN [k |-> "promise", v |-> vals] ELSE JsUndefined

TypeError == [received |-> <<>>, typeError |-> TRUE, value |-> JsUndefined]

\* a call of the original function: the calls its implementation receives
\* and what the caller gets back
Native(fn, args) ==
    IF Len(args) < Required(fn) THEN TypeError
    ELSE LET vals == [i \in 1..Declared(fn) |-> Arg(args, i)]
         IN [received |-> <<[fn |-> fn, vals |-> vals]>>, typeError |-> FALSE,
             value |-> ReturnOf(fn, vals)]

\* window.fetch = function (input, init) { ... originalFetch(input, init) }:
\* the url is read off input without a method call on it (String(input) for
\* any other value), the original gets the two parameters
FetchHook(args) == Native("fetch", <<Arg(args, 1), Arg(args, 2)>>)

\* XMLHttpRequest.prototype.open = function (method, url, ...) {
\*   this._requestUrl = url.toString();
\*   return originalOpen.apply(this, arguments) }
XhrOpenHook(args) ==
    IF Arg(args, 2).k \in {"undefined", "null"} THEN TypeError
    ELSE Native("open", args)

\* XMLHttpRequest.prototype.send = function (body) {
\*   ... return originalSend.apply(this, arguments) }
XhrSendHook(args) == Native("send", args)

\* no hooked function has been called yet
NoHookCall ==
    [fn |-> "none", supplied |-> <<>>, cause |-> NoId, reported |-> <<>>,
     result |-> [received |-> <<>>, typeError |-> FALSE, value |-> JsUndefined]]

\* the url text the fetch hook extracts from input, and url.toString() of
\* open; 0 is the text "undefined" or "null", which names no url of the page
TextOf(v) == IF v.k \in {"string", "URL", "Request"} THEN v.v ELSE 0

\* reportRequestMapping(url, actionId), called only with a cause
Reported(v, actionId) ==
    IF Truthy(actionId) THEN <<[url |-> TextOf(v), actionId |-> actionId]>> ELSE <<>>

\* a page script calls fetch(...args)
CallFetch(args) ==
    /\ hookCall' = [fn |-> "fetch", supplied |-> args, cause |-> currentActionId,
                    reported |-> Reported(Arg(args, 1), currentActionId),
                    result |-> FetchHook(args)]
    /\ UNCHANGED <<browserVars, hostQueue, hostVars, clockVars, histVars, listenVars,
                   scanVars, aliasVars>>

\* a page script calls xhr.open(...args): the cause is captured before
\* url.toString() is evaluated
CallOpen(args) ==
    /\ hookCall' = [fn |-> "open", supplied |-> args, cause |-> currentActionId,
                    reported |-> <<>>, result |-> XhrOpenHook(args)]
    /\ UNCHANGED <<browserVars, hostQueue, hostVars, clockVars, histVars, listenVars,
                   scanVars, aliasVars>>

\* a page script calls xhr.send(...args) on the request it has just opened
CallSend(args) ==
    /\ hookCall.fn = "open"
    /\ ~hookCall.result.typeError
    /\ hookCall' = [fn |-> "send", supplied |-> args, cause |-> hookCall.cause,
                    reported |-> Reported(Arg(hookCall.supplied, 2), hookCall.cause),
                    result |-> XhrSendHook(args)]
    /\ UNCHANGED <<browserVars, hostQueue, hostVars, clockVars, histVars, listenVars,
                   scanVars, aliasVars>>


(***************************************************************************)
(* The page: the addEventListener hook (inputMonitor.ts, 94-200).  The     *)
(* page registers a function, an object with a handleEvent method, or a    *)
(* value that is neither, on an element for an event type.                 *)
(***************************************************************************)
TargetKinds == {"input", "textarea", "select", "form", "div"}
EventTypes == {"change", "input", "keyup", "keydown", "submit", "click"}
ListenerKinds == {"function", "object", "none"}

\* this instanceof HTMLInputElement || HTMLTextAreaElement || HTMLSelectElement
IsField(target) == target \in {"input", "textarea", "select"}

\* the (element, event type) pairs for which the hook calls wrapHandler
Wraps(target, type) ==
    \/ IsField(target) /\ type \in {"change", "input", "keyup", "keydown"}
    \/ target = "form" /\ type = "submit"

\* `input.addEventListener.${type}` and "form.addEventListener.submit"
ActionTypeOf(target, type) ==
    IF target = "form" THEN "form.addEventListener.submit"
    ELSE CASE type = "change" -> "input.addEventListener.change"
           [] type = "input" -> "input.addEventListener.input"
           [] type = "keyup" -> "input.addEventListener.keyup"
           [] OTHER -> "input.addEventListener.keydown"

\* `id=${this.id}` of the one element of each kind on the page
ElementIdOf(target) ==
    CASE target = "input" -> "id=username"
      [] target = "textarea" -> "id=comment"
      [] target = "select" -> "id=country"
      [] target = "form" -> "id=login"
      [] OTHER -> "id=banner"

NoWrapper == [actionType |-> "", elementId |-> ""]
NoDispatch == [n |-> 0, target |-> "", type |-> "", listener |-> ""]

\* wrapHandler(handler, actionType, elementId): the wrapper's two constants
WrapHandler(actionType, elementId) == [actionType |-> actionType, elementId |-> elementId]

\* the function the hook passes on to the original addEventListener: the
\* wrapper for a function listener on a wrapped pair, else the listener itself
RegisteredWrapper(target, type, listener) ==
    IF Wraps(target, type) /\ listener = "function"
    THEN WrapHandler(ActionTypeOf(target, type), ElementIdOf(target))
    ELSE NoWrapper

\* listener.handleEvent = wrapHandler(orig, ...): the object's method is
\* replaced in place
HandleEventAfter(wrappers, target, type, listener) ==
    IF Wraps(target, type) /\ listener = "object"
    THEN Append(wrappers, WrapHandler(ActionTypeOf(target, type), ElementIdOf(target)))
    ELSE wrappers

\* EventTarget.prototype.addEventListener hook
AddEventListener(target, type, listener) ==
    /\ registered' = Append(registered,
                            [target |-> target, type |-> type, listener |-> listener,
                             wrapper |-> RegisteredWrapper(target, type, listener)])
    /\ handleEvent' = HandleEventAfter(handleEvent, target, type, listener)
    /\ UNCHANGED <<browserVars, hostQueue, hostVars, clockVars, histVars, hookCall,
                   dispatched, scanVars, aliasVars>>

\* the wrapper the browser runs when it delivers an event to a registration:
\* the registered function, or the handleEvent method the object has now
InvokedWrapper(reg) ==
    CASE reg.listener = "function" -> reg.wrapper
      [] reg.listener = "object" ->
            IF handleEvent = <<>> THEN NoWrapper ELSE Last(handleEvent)
      [] OTHER -> NoWrapper

\* the browser delivers an event of a registration's type on its element; a
\* wrapper pushes, reports and runs the handler (wrapHandler, 110-128)
Dispatch(i) ==
    /\ i \in 1..Len(registered)
    /\ LET reg == registered[i]
           w == InvokedWrapper(reg)
           actionId == MakeId("action", now, idCount + 1)
       IN /\ dispatched' = [n |-> dispatched.n + 1, target |-> reg.target,
                            type |-> reg.type, listener |-> reg.listener]
          /\ IF w # NoWrapper
             THEN /\ actionIdStack' = Push(actionIdStack, actionId)
                  /\ currentActionId' = actionId
                  /\ hostQueue' = Append(hostQueue, ActionMsg(w.actionType, w.elementId, actionId))
                  /\ running' = Append(running, actionId)
                  /\ idCount' = idCount + 1
             ELSE UNCHANGED <<actionIdStack, currentActionId, hostQueue, running, idCount>>
    /\ UNCHANGED <<timers, xhr, requestActionMap, calls, hostVars, clockVars, histVars,
                   hookCall, registered, handleEvent, scanVars, aliasVars>>

(***************************************************************************)
(* The host: Scanner.start and finishScan (scanner.ts, 24-62).  start is a *)
(* sequence of awaited statements; an awaited promise resolves or rejects, *)
(* and a rejection ends start with that error.                             *)
(***************************************************************************)
\* the awaited statements of start, in order
StartSteps == <<"launch", "newPage", "exposeFinish", "inputSetup", "requestSetup",
                "goto", "wait", "save", "close">>
\* the statements up to and including the monitors' setup
SetupSteps == {"launch", "newPage", "exposeFinish", "inputSetup", "requestSetup"}

\* a start that navigates before the monitors are set up
NextStepGotoFirst(step) ==
    CASE step = "launch" -> "newPage"
      [] step = "newPage" -> "exposeFinish"
      [] step = "exposeFinish" -> "goto"
      [] step = "goto" -> "inputSetup"
      [] step = "inputSetup" -> "requestSetup"
      [] step = "requestSetup" -> "wait"
      [] step = "wait" -> "save"
      [] step = "save" -> "close"
      [] OTHER -> "done"

StepIndex(step) == CHOOSE i \in 1..Len(StartSteps) : StartSteps[i] = step
\* the statement after a step, "done" after the last
NextStep(step) ==
    IF StepIndex(step) = Len(StartSteps) THEN "done" ELSE StartSteps[StepIndex(step) + 1]

loopVars == <<browserVars, hostQueue, hostVars, clockVars, histVars, hookCall, listenVars,
              aliasVars>>

\* scanner.start(url) is called
Start ==
    /\ pc = "idle"
    /\ pc' = "launch"
    /\ UNCHANGED <<failedAt, scanFinished, finishCalls, navigated, saves, closed, loopVars>>

\* the awaited promise of the current statement resolves; waitForScanToFinish
\* resolves only once it has read scanFinished as true
StepResolves ==
    /\ pc \in {StartSteps[i] : i \in 1..Len(StartSteps)}
    /\ pc = "wait" => scanFinished
    /\ pc' = NextStep(pc)
    /\ navigated' = (navigated \/ pc = "goto")
    /\ saves' = IF pc = "save" THEN saves + 1 ELSE saves
    /\ closed' = (closed \/ pc = "close")
    /\ UNCHANGED <<failedAt, scanFinished, finishCalls, loopVars>>

\* the awaited promise of the current statement rejects: start rejects; the
\* polling loop of waitForScanToFinish awaits timers only and cannot reject
StepRejects ==
    /\ pc \in {StartSteps[i] : i \in 1..Len(StartSteps)} \ {"wait"}
    /\ pc' = "error"
    /\ failedAt' = pc
    /\ navigated' = (navigated \/ pc = "goto")
    /\ UNCHANGED <<scanFinished, finishCalls, saves, closed, loopVars>>

\* a finishScan that flips the flag instead of setting it
FinishScanToggle ==
    /\ scanFinished' = ~scanFinished
    /\ finishCalls' = finishCalls + 1
    /\ UNCHANGED <<pc, failedAt, navigated, saves, closed, loopVars>>

\* finishScan(): this.scanFinished = true
FinishScan ==
    /\ scanFinished' = TRUE
    /\ finishCalls' = finishCalls + 1
    /\ UNCHANGED <<pc, failedAt, navigated, saves, closed, loopVars>>

\* no value has been returned by getResults yet
NoResults == [kind |-> "none", ledger |-> [parts |-> <<>>, requests |-> <<>>]]


(***************************************************************************)
(* ResultAggregator.getResults (resultAggregator.ts, 77-79) and its        *)
(* callers (scanner.ts, 88 and 296-303).  A returned value is either a     *)
(* reference to the aggregator's scanData object or an object of its own;  *)
(* `ledger` is the content as of the call for a reference, and the         *)
(* object's own content otherwise.                                         *)
(***************************************************************************)
\* this.scanData as it is now
Ledger == [parts |-> parts, requests |-> requests]

\* a getResults that returns a deep copy of scanData
GetResultsCopy == [kind |-> "copy", ledger |-> Ledger]

\* getResults(): return this.scanData
GetResults == [kind |-> "ref", ledger |-> Ledger]

\* what a holder of a returned value reads through it
View(r) == IF r.kind = "ref" THEN Ledger ELSE r.ledger

\* a caller obtains the results
TakeResults ==
    /\ results' = GetResults
    /\ UNCHANGED <<writes, browserVars, hostQueue, hostVars, clockVars, histVars, hookCall,
                   listenVars, scanVars>>

\* the holder assigns a status to an unresolved record i of the value it
\* holds, as the response fallback does: matchingRequest.status =
\* response.status()
WriteReturned(i, code) ==
    /\ results.kind # "none"
    /\ i \in 1..Len(View(results).requests)
    /\ View(results).requests[i].status = StatusUnset
    /\ writes' = writes + 1
    /\ IF results.kind = "ref"
       THEN /\ requests' = [requests EXCEPT ![i].status = code]
            /\ results' = results
       ELSE /\ results' = [results EXCEPT !.ledger.requests[i].status = code]
            /\ requests' = requests
    /\ UNCHANGED <<browserVars, hostQueue, urlActionMappings, pendingRequests, parts,
                   actionIdSet, resourcePartCounter, synthCount, clockVars, histVars,
                   hookCall, listenVars, scanVars>>

(***************************************************************************)
(* The specification.                                                      *)
(***************************************************************************)
Init ==
    /\ actionIdStack = <<>>
    /\ currentActionId = NoId
    /\ timers = <<>>
    /\ running = <<>>
    /\ xhr = NoXhr
    /\ requestActionMap = <<>>
    /\ idCount = 0
    /\ calls = <<>>
    /\ hostQueue = <<>>
    /\ urlActionMappings = <<>>
    /\ pendingRequests = <<>>
    /\ requests = <<>>
    /\ parts = <<>>
    /\ actionIdSet = {}
    /\ resourcePartCounter = [t \in PartTypes |-> 0]
    /\ synthCount = 0
    /\ now = StartMs
    /\ ticks = 0
    /\ recordOf = <<>>
    /\ issuedUnder = <<>>
    /\ hookCall = NoHookCall
    /\ registered = <<>>
    /\ handleEvent = <<>>
    /\ dispatched = NoDispatch
    /\ pc = "idle"
    /\ failedAt = ""
    /\ scanFinished = FALSE
    /\ finishCalls = 0
    /\ navigated = FALSE
    /\ saves = 0
    /\ closed = FALSE
    /\ results = NoResults
    /\ writes = 0

\* The whole system: the page, the bridge, the network observers, the sweep
\* and the clock.
Next ==
    \/ /\ idCount < MaxCauses
       /\ Len(hostQueue) < MaxQueue
       /\ \E d \in InputIds : ValueRead(d)
    \/ /\ idCount < MaxCauses
       /\ Len(running) < MaxDepth
       /\ Len(hostQueue) < MaxQueue
       /\ \E t \in HandlerTypes, d \in InputIds : HandlerEnter(t, d)
    \/ HandlerReturn
    \/ HandlerThrow
    \/ TimerFire
    \/ /\ Len(calls) < MaxCalls
       /\ Len(hostQueue) + 2 <= MaxQueue
       /\ \E u \in Urls, m \in Methods : Fetch(u, m)
    \/ /\ Len(calls) < MaxCalls
       /\ Len(hostQueue) < MaxQueue
       /\ \E u \in Urls : PageLoad(u)
    \/ HostReportInputAccess
    \/ HostReportRequestMapping
    \/ HostRequest
    \/ \E rid \in 1..Len(calls), c \in HttpCodes : HostResponse(rid, c)
    \/ \E rid \in 1..Len(calls) : HostRequestFailed(rid)
    \/ Sweep
    \/ ticks < MaxTicks /\ Tick

Spec == Init /\ [][Next]_vars

\* The causal context stack alone: value reads, wrapped handlers that return,
\* grace timers, and the host taking the Action reports.
NextStack ==
    \/ /\ idCount < MaxStackCauses
       /\ Len(hostQueue) < MaxQueue
       /\ \E d \in InputIds : ValueRead(d)
    \/ /\ idCount < MaxStackCauses
       /\ Len(running) < MaxDepth
       /\ Len(hostQueue) < MaxQueue
       /\ \E t \in HandlerTypes, d \in InputIds : HandlerEnter(t, d)
    \/ HandlerReturn
    \/ TimerFire
    \/ HostReportInputAccess

SpecStack == Init /\ [][NextStack]_vars

\* The page with both outbound-call styles, and the host taking what the page
\* sends; no response arrives and the clock stands still.
NextHooks ==
    \/ /\ idCount < MaxCauses
       /\ Len(hostQueue) < MaxQueue
       /\ \E d \in InputIds : ValueRead(d)
    \/ /\ idCount < MaxCauses
       /\ Len(running) < MaxDepth
       /\ Len(hostQueue) < MaxQueue
       /\ \E t \in HandlerTypes, d \in InputIds : HandlerEnter(t, d)
    \/ HandlerReturn
    \/ HandlerThrow
    \/ TimerFire
    \/ /\ Len(calls) < MaxCalls
       /\ Len(hostQueue) + 2 <= MaxQueue
       /\ \E u \in Urls, m \in Methods : Fetch(u, m)
    \/ /\ Len(calls) < MaxCalls
       /\ \E u \in Urls, m \in Methods : XhrOpen(u, m)
    \/ /\ Len(calls) < MaxCalls
       /\ Len(hostQueue) + 2 <= MaxQueue
       /\ XhrSend
    \/ HostReportInputAccess
    \/ HostReportRequestMapping
    \/ HostRequest

SpecHooks == Init /\ [][NextHooks]_vars

\* The ledger and its statistics: one page session with static loads (an
\* image, a stylesheet, a script) and caused fetches, requests that fail, and
\* the sweep; no response arrives, the host has handled what the page sent
\* before the page acts again, and the long waits come after the page's last
\* call.
StatsUrls == {1, 3, 4}
ApiUrls == {1}
StatsMaxCalls == 4
StatsMaxCauses == 1
NextStats ==
    \/ /\ idCount < StatsMaxCauses
       /\ hostQueue = <<>>
       /\ \E d \in InputIds : ValueRead(d)
    \/ TimerFire
    \/ /\ Len(calls) < StatsMaxCalls
       /\ hostQueue = <<>>
       /\ \E u \in ApiUrls, m \in Methods : Fetch(u, m)
    \/ /\ Len(calls) < StatsMaxCalls
       /\ hostQueue = <<>>
       /\ \E u \in StatsUrls : PageLoad(u)
    \/ HostReportInputAccess
    \/ HostReportRequestMapping
    \/ HostRequest
    \/ \E rid \in 1..Len(calls) : HostRequestFailed(rid)
    \/ Sweep
    \/ /\ ticks < MaxTicks
       /\ Len(calls) = StatsMaxCalls
       /\ Tick

SpecStats == Init /\ [][NextStats]_vars

\* A burst: causes fire and the page calls fetch on one new target after the
\* other while a cause is current, the host handling what each call sends
\* before the next.  Rounds are taken several at a time, except around the
\* full Mapping Store: there a further cause may fire, the page may call
\* the oldest stored target again, and the call that overflows the store is
\* taken step by step.  No timer fires and the clock stands still (the burst
\* is shorter than the grace delay).
BurstTargets == 1200
BurstCauses == 2
BurstRepeats == 1
BurstStride == 100
BurstStep == 20
ReportedTargets == {calls[i].url : i \in 1..Len(calls)}

\* the variables one round of the burst changes, as a record
BurstState ==
    [calls |-> calls, requestActionMap |-> requestActionMap,
     issuedUnder |-> issuedUnder, urlActionMappings |-> urlActionMappings,
     pendingRequests |-> pendingRequests, requests |-> requests, parts |-> parts,
     resourcePartCounter |-> resourcePartCounter, synthCount |-> synthCount,
     recordOf |-> recordOf]

\* one round: the fetch hook called on url under cause, then the host's
\* reportRequestMapping, then its request observer
Round(h, url, cause, method, ms) ==
    LET rid == Len(h.calls) + 1
        mappings == ReportRequestMapping(h.urlActionMappings, url, cause)
        requestRecord ==
            [actionId |-> RequestActionId(mappings, url, ms, h.synthCount + 1),
             url |-> url, requestSource |-> "fetch", method |-> method,
             status |-> StatusUnset]
    IN [calls |-> Append(h.calls, [Call(url, "fetch", method) EXCEPT !.phase = "observed", !.observedAt = ms]),
        requestActionMap |-> Correlate(h.requestActionMap, rid, cause),
        issuedUnder |-> h.issuedUnder @@ (rid :> cause),
        urlActionMappings |-> mappings,
        pendingRequests |-> h.pendingRequests @@ (rid :> Len(h.requests) + 1),
        requests |-> AddRequest(h.requests, requestRecord),
        parts |-> PartsAfterCreate(h.parts, h.resourcePartCounter, "fetch"),
        resourcePartCounter |-> CounterAfterCreate(h.resourcePartCounter, "fetch"),
        synthCount |-> IF MapHas(mappings, url) THEN h.synthCount ELSE h.synthCount + 1,
        recordOf |-> h.recordOf @@ (rid :> Len(h.requests) + 1)]

\* n rounds on the targets url, url + 1, ...: the first half of the rounds,
\* then the second half on the result
RECURSIVE Rounds(_, _, _, _, _, _)
Rounds(h, url, n, cause, method, ms) ==
    IF n = 0 THEN h
    ELSE IF n = 1 THEN Round(h, url, cause, method, ms)
    ELSE LET half == n \div 2
             first == Rounds(h, url, half, cause, method, ms)
         IN \* the first half is complete (its calls exist) before the second begins
            IF Len(first.calls) = Len(h.calls) + half
            THEN Rounds(first, url + half, n - half, cause, method, ms)
            ELSE h

\* n consecutive rounds on new targets, taken as one step
BurstRounds(n, method) ==
    /\ hostQueue = <<>>
    /\ Truthy(currentActionId)
    /\ LET h == Rounds(BurstState, Cardinality(ReportedTargets) + 1, n,
                       currentActionId, method, now) IN
        /\ calls' = h.calls
        /\ requestActionMap' = h.requestActionMap
        /\ issuedUnder' = h.issuedUnder
        /\ urlActionMappings' = h.urlActionMappings
        /\ pendingRequests' = h.pendingRequests
        /\ requests' = h.requests
        /\ parts' = h.parts
        /\ resourcePartCounter' = h.resourcePartCounter
        /\ synthCount' = h.synthCount
        /\ recordOf' = h.recordOf
    /\ UNCHANGED <<passVars, actionIdStack, currentActionId, timers, running, xhr, idCount,
                   hostQueue, actionIdSet, clockVars>>

\* rounds left before the store is full, or before the burst ends
RoundsLeft ==
    IF Cardinality(ReportedTargets) < MappingCapacity
    THEN MappingCapacity - Cardinality(ReportedTargets)
    ELSE BurstTargets - Cardinality(ReportedTargets)

Min(a, b) == IF a <= b THEN a ELSE b

NextBurst ==
    \/ /\ hostQueue = <<>>
       /\ \/ idCount = 0
          \/ idCount < BurstCauses /\ Len(urlActionMappings) = MappingCapacity
       /\ \E d \in InputIds : ValueRead(d)
    \/ /\ Cardinality(ReportedTargets) # MappingCapacity
       /\ RoundsLeft > 0
       /\ \E n \in {Min(BurstStride, RoundsLeft), Min(BurstStep, RoundsLeft)}, m \in Methods :
              BurstRounds(n, m)
    \/ /\ hostQueue = <<>>
       /\ Truthy(currentActionId)
       /\ Cardinality(ReportedTargets) = MappingCapacity
       /\ Cardinality(ReportedTargets) < BurstTargets
       /\ \E m \in Methods : Fetch(Cardinality(ReportedTargets) + 1, m)
    \/ /\ hostQueue = <<>>
       /\ Truthy(currentActionId)
       /\ Len(urlActionMappings) = MappingCapacity
       /\ Len(calls) - Cardinality(ReportedTargets) < BurstRepeats
       /\ \E m \in Methods : Fetch(urlActionMappings[1].url, m)
    \/ HostReportInputAccess
    \/ HostReportRequestMapping
    \/ HostRequest

SpecBurst == Init /\ [][NextBurst]_vars

\* The burst with a sweep that comes while the Mapping Store is full.
NextBurstSweep ==
    \/ NextBurst
    \/ /\ hostQueue = <<>>
       /\ Len(urlActionMappings) = MappingCapacity
       /\ Sweep

SpecBurstSweep == Init /\ [][NextBurstSweep]_vars

\* A page that calls fetch on one new target after the other under a cause,
\* singly or many at a time, with the periodic sweep coming at any moment;
\* around the sweep's threshold a further cause may fire and the oldest
\* stored target may be called again.
SweepTargets == 60
SweepStride == 25
SweepCauses == 2
SweepRepeats == 1
NextSweep ==
    \/ /\ hostQueue = <<>>
       /\ \/ idCount = 0
          \/ idCount < SweepCauses /\ Len(urlActionMappings) = SweepMappingThreshold
       /\ \E d \in InputIds : ValueRead(d)
    \/ \E n \in {1, SweepStride}, m \in Methods :
          /\ Cardinality(ReportedTargets) + n <= SweepTargets
          /\ BurstRounds(n, m)
    \/ /\ hostQueue = <<>>
       /\ Truthy(currentActionId)
       /\ Len(urlActionMappings) >= SweepMappingThreshold
       /\ Len(calls) - Cardinality(ReportedTargets) < SweepRepeats
       /\ \E m \in Methods : Fetch(urlActionMappings[1].url, m)
    \/ HostReportInputAccess
    \/ HostReportRequestMapping
    \/ HostRequest
    \/ hostQueue = <<>> /\ Sweep

SpecSweep == Init /\ [][NextSweep]_vars

(***************************************************************************)
(* The ResultAggregator on its own: any sequence of addAction and          *)
(* addResourcePart calls, with part ids and types chosen by the caller.    *)
(***************************************************************************)
ApiMaxActions == 3
ApiIds == 2
ApiPartIds == {MainPart, PartId("js", 1), PartId("other", 1)}
ApiPartTypes == {"html", "js", "other"}
ApiActions ==
    {[actionId |-> MakeId("action", StartMs, r), type |-> "input.value",
      data |-> "id=username"] : r \in 1..ApiIds}

RECURSIVE TotalActions(_)
TotalActions(ps) ==
    IF ps = <<>> THEN 0 ELSE Len(Head(ps).actions) + TotalActions(Tail(ps))

ApiAddAction(partId, action, partType) ==
    /\ TotalActions(parts) < ApiMaxActions
    /\ parts' = AddAction(parts, partId, action, partType)
    /\ actionIdSet' = actionIdSet \cup {action.actionId}
    /\ UNCHANGED <<passVars, browserVars, hostQueue, urlActionMappings, pendingRequests,
                   requests, resourcePartCounter, synthCount, clockVars, histVars>>

ApiAddResourcePart(partId, partType) ==
    /\ parts' = AddResourcePart(parts, partId, partType)
    /\ UNCHANGED <<passVars, browserVars, hostQueue, urlActionMappings, pendingRequests,
                   requests, actionIdSet, resourcePartCounter, synthCount,
                   clockVars, histVars>>

NextAggregator ==
    \/ \E id \in ApiPartIds, a \in ApiActions, t \in ApiPartTypes : ApiAddAction(id, a, t)
    \/ \E id \in ApiPartIds, t \in ApiPartTypes : ApiAddResourcePart(id, t)

SpecAggregator == Init /\ [][NextAggregator]_vars

\* Page scripts calling the hooked functions with any argument list, while a
\* cause is current and while none is.
PassCauses == 1
NextPass ==
    \/ /\ idCount < PassCauses
       /\ \E d \in InputIds : ValueRead(d)
    \/ TimerFire
    \/ HostReportInputAccess
    \/ \E args \in ArgLists : CallFetch(args)
    \/ \E args \in ArgLists : CallOpen(args)
    \/ \E args \in ArgLists : CallSend(args)

SpecPass == Init /\ [][NextPass]_vars

\* Wrapped handlers that may dispatch an event to another wrapped handler
\* while they run, value reads and fetch calls inside and outside handlers,
\* and the host taking what the page sends.
HandlerDepth == 2
HandlerCauses == 3
HandlerCalls == 1
NextHandler ==
    \/ /\ idCount < HandlerCauses
       /\ Len(hostQueue) < MaxQueue
       /\ \E d \in InputIds : ValueRead(d)
    \/ /\ idCount < HandlerCauses
       /\ Len(running) < HandlerDepth
       /\ Len(hostQueue) < MaxQueue
       /\ \E t \in HandlerTypes, d \in InputIds : HandlerEnter(t, d)
    \/ HandlerReturn
    \/ TimerFire
    \/ /\ Len(calls) < HandlerCalls
       /\ Len(hostQueue) + 2 <= MaxQueue
       /\ \E u \in Urls, m \in Methods : Fetch(u, m)
    \/ HostReportInputAccess
    \/ HostReportRequestMapping
    \/ HostRequest

SpecHandler == Init /\ [][NextHandler]_vars

\* A page that registers listeners and receives events.
MaxRegistrations == 2
MaxDispatches == 2
MaxWrappers == 1
NextListen ==
    \/ /\ Len(registered) < MaxRegistrations
       /\ \E target \in TargetKinds, type \in EventTypes, listener \in ListenerKinds :
             /\ Len(HandleEventAfter(handleEvent, target, type, listener)) <= MaxWrappers
             /\ AddEventListener(target, type, listener)
    \/ /\ dispatched.n < MaxDispatches
       /\ running = <<>>
       /\ Len(hostQueue) < MaxQueue
       /\ \E i \in 1..Len(registered) : Dispatch(i)
    \/ HandlerReturn
    \/ TimerFire
    \/ HostReportInputAccess

SpecListen == Init /\ [][NextListen]_vars

\* Every order of the host's events: reports, request events, responses and
\* failures with and without a tracked record (and without any request event
\* before them), sweeps and long waits.
OrphanCauses == 1
OrphanCalls == 1
OrphanRecords == 3
NextOrphan ==
    \/ /\ idCount < OrphanCauses
       /\ hostQueue = <<>>
       /\ \E d \in InputIds : ValueRead(d)
    \/ TimerFire
    \/ /\ Len(calls) < OrphanCalls
       /\ hostQueue = <<>>
       /\ \E u \in Urls, m \in Methods : Fetch(u, m)
    \/ /\ Len(calls) < OrphanCalls
       /\ hostQueue = <<>>
       /\ \E u \in Urls : PageLoad(u)
    \/ HostReportInputAccess
    \/ HostReportRequestMapping
    \/ HostRequest
    \/ \E rid \in 1..Len(calls), c \in HttpCodes : HostResponse(rid, c)
    \/ \E rid \in 1..Len(calls) : HostRequestFailed(rid)
    \/ \E u \in Urls, c \in HttpCodes : HostResponseUnseen(u, c)
    \/ /\ Len(requests) < OrphanRecords
       /\ \E u \in Urls : HostRequestFailedUnseen(u)
    \/ Sweep
    \/ ticks < MaxTicks /\ Tick

SpecOrphan == Init /\ [][NextOrphan]_vars

\* One scan: start with statements that resolve or reject, finishScan called
\* by the embedding program at any time, and the page acting once it has
\* been navigated to.
MaxFinishCalls == 2
ScanCauses == 2
PageLive == navigated /\ ~closed /\ pc # "error"
NextScan ==
    \/ Start
    \/ StepResolves
    \/ StepRejects
    \/ finishCalls < MaxFinishCalls /\ FinishScan
    \/ /\ PageLive
       /\ idCount < ScanCauses
       /\ \E d \in InputIds : ValueRead(d)
    \/ PageLive /\ TimerFire
    \/ HostReportInputAccess

SpecScan == Init /\ [][NextScan]_vars

\* One scan whose awaited statements all resolve.  Each statement of start is
\* awaited, so start continues whenever the awaited promise has resolved; the
\* polling loop of waitForScanToFinish re-reads scanFinished every second.
NextScanLive ==
    \/ Start
    \/ StepResolves
    \/ finishCalls < MaxFinishCalls /\ FinishScan
    \/ /\ PageLive
       /\ idCount < ScanCauses
       /\ \E d \in InputIds : ValueRead(d)
    \/ PageLive /\ TimerFire
    \/ HostReportInputAccess

SpecScanLive == Init /\ [][NextScanLive]_vars /\ WF_vars(StepResolves)

\* The ledger being filled while callers take the results and assign to
\* what they were given.
ResultCauses == 1
ResultCalls == 1
MaxWrites == 1
NextResults ==
    \/ /\ idCount < ResultCauses
       /\ hostQueue = <<>>
       /\ \E d \in InputIds : ValueRead(d)
    \/ TimerFire
    \/ /\ Len(calls) < ResultCalls
       /\ hostQueue = <<>>
       /\ \E u \in Urls, m \in Methods : Fetch(u, m)
    \/ HostReportInputAccess
    \/ HostReportRequestMapping
    \/ HostRequest
    \/ \E rid \in 1..Len(calls), c \in HttpCodes : HostResponse(rid, c)
    \/ \E rid \in 1..Len(calls) : HostRequestFailed(rid)
    \/ TakeResults
    \/ /\ writes < MaxWrites
       /\ \E i \in 1..Len(requests), c \in HttpCodes : WriteReturned(i, c)

SpecResults == Init /\ [][NextResults]_vars

\* A page that reads values and calls fetch in one synchronous run, so that
\* the Action report, the mapping report and the request event are in flight
\* together, and the host taking them in the order of issue.
LinkQueue == 5
LinkCauses == 2
LinkCalls == 2
NextLink ==
    \/ /\ idCount < LinkCauses
       /\ Len(hostQueue) < LinkQueue
       /\ \E d \in InputIds : ValueRead(d)
    \/ TimerFire
    \/ /\ Len(calls) < LinkCalls
       /\ Len(hostQueue) + 2 <= LinkQueue
       /\ \E u \in Urls, m \in Methods : Fetch(u, m)
    \/ HostReportInputAccess
    \/ HostReportRequestMapping
    \/ HostRequest
    \/ \E rid \in 1..Len(calls), c \in HttpCodes : HostResponse(rid, c)
    \/ \E rid \in 1..Len(calls) : HostRequestFailed(rid)
    \/ Sweep
    \/ ticks < MaxTicks /\ Tick

SpecLink == Init /\ [][NextLink]_vars

(***************************************************************************)
(* Claims.                                                                 *)
(***************************************************************************)
\* the Request record created when the host observed call rid
RecordOfCall(rid) == requests[recordOf[rid]]

\* calls issued with a captured cause whose request event the host has handled
ObservedCausedCalls == DOMAIN recordOf \cap DOMAIN requestActionMap

\* C1: a call issued with captured cause A to target u, reported as (u, A), is
\* recorded by the host as a Request with actionId A and url u that counts as
\* linked, and once its response 200 has arrived the record has status 200.
C1_CausedCallLinked ==
    \A rid \in ObservedCausedCalls :
        /\ RecordOfCall(rid).actionId = requestActionMap[rid]
        /\ RecordOfCall(rid).url = calls[rid].url
        /\ RecordOfCall(rid).actionId \in actionIdSet
        /\ calls[rid].outcome = 200 => RecordOfCall(rid).status = 200

\* the messages a step appended to what the page has sent
Appended == SubSeq(hostQueue', Len(hostQueue) + 1, Len(hostQueue'))

\* C2: whenever a call (fetch, or XMLHttpRequest send) is made with a captured
\* cause, the (target, cause id) report is sent strictly before the call is
\* handed to the transport, and nothing of that call precedes the report.
C2_ReportBeforeDispatch ==
    [][\A rid \in (DOMAIN requestActionMap') \ (DOMAIN requestActionMap) :
          \E j \in 1..Len(Appended) :
              /\ Appended[j] = RequestMsg(rid)
              /\ \E i \in 1..(j - 1) :
                     Appended[i] = MappingMsg(calls'[rid].url, requestActionMap'[rid])
              /\ \A i \in 1..(j - 1) : Appended[i] # RequestMsg(rid)]_vars

\* a caused fetch and a caused XMLHttpRequest have both been issued
C2_Witness ==
    \E r1, r2 \in DOMAIN requestActionMap :
        calls[r1].resourceType = "fetch" /\ calls[r2].resourceType = "xhr"

\* C3: once a call provoked by cause A has failed, the ledger holds a Request
\* for its target with status -999 and actionId A, counted as linked.
C3_BlockedCallLinked ==
    \A rid \in DOMAIN requestActionMap :
        calls[rid].outcome = StatusFailed =>
            \E i \in 1..Len(requests) :
                /\ requests[i].url = calls[rid].url
                /\ requests[i].status = StatusFailed
                /\ requests[i].actionId = requestActionMap[rid]
                /\ requests[i].actionId \in actionIdSet

\* C4: when a grace timer fires for a cause that is not the top of the stack,
\* the stack and the current cause are unchanged; when it is the top, exactly
\* that entry is removed and the current cause becomes the entry beneath it,
\* or none.
C4_IdentityGuardedPop ==
    [][(timers # <<>> /\ timers' = Tail(timers)) =>
          LET id == Head(timers)
              n == Len(actionIdStack) IN
          IF n > 0 /\ actionIdStack[n] = id
          THEN /\ actionIdStack' = SubSeq(actionIdStack, 1, n - 1)
               /\ currentActionId' = IF n > 1 THEN actionIdStack[n - 1] ELSE NoId
          ELSE /\ actionIdStack' = actionIdStack
               /\ currentActionId' = currentActionId]_vars

\* push(A); push(B); A's timer has fired and B's has not: B is still there
C4_Witness ==
    /\ Len(actionIdStack) = 2
    /\ Len(timers) = 1
    /\ Head(timers) = actionIdStack[2]
    /\ currentActionId = actionIdStack[2]
    /\ running = <<>>

\* C5: a Request status that holds a terminal value never changes again.
C5_StatusWrittenOnce ==
    [][\A i \in 1..Len(requests) :
          requests[i].status # StatusUnset => requests'[i].status = requests[i].status]_vars

\* the statistics of the ledger as it stands
Stats == GetLinkageStats(requests, actionIdSet)

\* C6: on a ledger with no requests the linkage rate is 0.
C6_EmptyLedgerRateZero ==
    Len(requests) = 0 =>
        Stats.linkageRate.kind = "finite" /\ Stats.linkageRate.num = 0

\* C7: with at least one request, linked + unlinked is the number of
\* requests, the rate is linked / requests * 100, and 0 <= rate <= 100.
C7_StatsConsistent ==
    Len(requests) > 0 =>
        /\ Stats.linkedRequests + Stats.unlinkedRequests = Len(requests)
        /\ Stats.linkageRate.kind = "finite"
        /\ Stats.linkageRate.num * Len(requests)
               = Stats.linkedRequests * 100 * Stats.linkageRate.den
        /\ 0 <= Stats.linkageRate.num
        /\ Stats.linkageRate.num <= 100 * Stats.linkageRate.den

\* a ledger holding both a linked and an unlinked request
C7_Witness ==
    Stats.linkedRequests >= 1 /\ Stats.unlinkedRequests >= 1

\* ids made by the observers for requests no cause is known for
SyntheticPrefixes == {"http", "failed"}
SyntheticRequests == {i \in 1..Len(requests) : requests[i].actionId.p \in SyntheticPrefixes}

\* C8: a Request created while the Mapping Store holds no entry for its url
\* gets a synthetic id (http_ or failed_) that is no Action's id; synthetic
\* requests are never counted as linked, so with L linked requests and k
\* synthetic ones the stats report k unlinked and a rate of L / (L + k) * 100.
C8_SyntheticNeverLinked ==
    /\ [](/\ \A a \in actionIdSet : a.p = "action"
          /\ \A i \in SyntheticRequests : requests[i].actionId \notin actionIdSet
          /\ Stats.unlinkedRequests = Cardinality(SyntheticRequests)
          /\ Len(requests) > 0 =>
                Stats.linkageRate.num * (Stats.linkedRequests + Cardinality(SyntheticRequests))
                   = Stats.linkedRequests * 100 * Stats.linkageRate.den)
    /\ [][Len(requests') = Len(requests) + 1 =>
             LET r == requests'[Len(requests')] IN
             ~MapHas(urlActionMappings, r.url) =>
                 r.actionId.p \in SyntheticPrefixes /\ r.actionId \notin actionIdSet']_vars

\* three requests observed with no cause, next to at least one linked request
C8_Witness ==
    /\ Cardinality(SyntheticRequests) = 3
    /\ Stats.unlinkedRequests = 3
    /\ Stats.linkedRequests >= 1

\* C9: a Request carries a cause's id only if its call was dispatched while
\* that cause was the current cause.
C9_OnlyWhileCurrent ==
    \A rid \in DOMAIN recordOf :
        RecordOfCall(rid).actionId.p = "action" =>
            issuedUnder[rid] = RecordOfCall(rid).actionId

\* C10: once every scheduled grace timer has fired and no handler is running,
\* the stack is empty and the current cause is none.
C10_EveryCauseRemoved ==
    (timers = <<>> /\ running = <<>>) =>
        (actionIdStack = <<>> /\ currentActionId = NoId)

\* C11: the Mapping Store never holds more than its capacity of 1000 entries,
\* also right after a report that triggers the eviction.
C11_StoreWithinCapacity == Len(urlActionMappings) <= MappingCapacity

\* the report that overflowed the store has been handled: the eviction ran
C11_Witness ==
    /\ Cardinality(ReportedTargets) = MappingCapacity + 1
    /\ hostQueue = <<>>
    /\ Len(urlActionMappings) = MappingRetain

\* every call of the burst went to a target not called before
NoRepeat == Len(calls) = Cardinality(ReportedTargets)

\* the store holds the n most recently reported targets of a burst without
\* repeats, oldest first
HoldsMostRecent(n) ==
    LET reported == Cardinality(ReportedTargets) IN
    /\ Len(urlActionMappings) = n
    /\ \A i \in 1..n : urlActionMappings[i].url = reported - n + i

\* C12 as stated: after 1200 distinct targets reported in succession the
\* store holds at most 500 entries, the most recently reported ones.
C12_AtMostRetainAfterBurst ==
    (hostQueue = <<>> /\ NoRepeat /\ Cardinality(ReportedTargets) = BurstTargets) =>
        /\ Len(urlActionMappings) <= MappingRetain
        /\ HoldsMostRecent(Len(urlActionMappings))

\* entries left after n distinct targets: all of them up to the capacity, and
\* from the first overflow on the 500 retained plus those reported since
EntriesAfter(n) ==
    IF n <= MappingCapacity THEN n ELSE MappingRetain + (n - (MappingCapacity + 1))

\* C12 as amended: after n distinct targets reported in succession (n up to
\* 1200) the store holds the EntriesAfter(n) most recently reported ones: 500
\* right after the 1001st report, 699 after the 1200th, never more than 1000.
C12_MostRecentAfterBurst ==
    (hostQueue = <<>> /\ NoRepeat) =>
        /\ HoldsMostRecent(EntriesAfter(Cardinality(ReportedTargets)))
        /\ Len(urlActionMappings) <= MappingCapacity

\* the burst of 1200 distinct targets is over and 699 entries are stored
C12_Witness ==
    /\ hostQueue = <<>>
    /\ NoRepeat
    /\ Cardinality(ReportedTargets) = BurstTargets
    /\ Len(urlActionMappings) = MappingRetain + (BurstTargets - MappingCapacity - 1)
    /\ Len(urlActionMappings) > MappingRetain

\* the targets of the last k calls (in a burst every call is made under a
\* cause, so every call is a report, and the newest call is the newest report)
LastReported(k) == {calls[r].url : r \in (Len(calls) - k + 1)..Len(calls)}

\* C13: when a report pushes the store over capacity, the entries kept are
\* exactly the 500 targets whose latest report is most recent (the targets of
\* the shortest run of latest reports that names 500 targets), so a target
\* reported again just before the eviction is among the kept.
C13_KeepsMostRecentlyReported ==
    [][Len(urlActionMappings') < Len(urlActionMappings) =>
          LET kept == {urlActionMappings'[i].url : i \in 1..Len(urlActionMappings')}
          IN /\ Cardinality(kept) = MappingRetain
             /\ \E k \in MappingRetain..Len(calls) : LastReported(k) = kept]_vars

\* the step resolves call rid (a response or a failure) and the tracker holds
\* no record for it
UntrackedResolution(rid) ==
    /\ calls[rid].phase = "observed"
    /\ calls'[rid].phase = "done"
    /\ rid \notin DOMAIN pendingRequests

\* ledger records still unresolved for the url of call rid
UnresolvedFor(rid) ==
    {i \in 1..Len(requests) :
        requests[i].url = calls[rid].url /\ requests[i].status = StatusUnset}

\* C14: a resolution (response or failure) for an untracked transport id
\* gives its terminal status to an existing Request with the
\* same url and status -1 if one exists, and then adds no record.
C14_FallbackMatchesUnresolved ==
    [][\A rid \in 1..Len(calls) :
          (UntrackedResolution(rid) /\ UnresolvedFor(rid) # {}) =>
              /\ Len(requests') = Len(requests)
              /\ \E i \in UnresolvedFor(rid) :
                     requests'[i].status = calls'[rid].outcome]_vars

\* two Request records that differ at most in status
SameIdentity(r1, r2) ==
    /\ r1.actionId = r2.actionId
    /\ r1.url = r2.url
    /\ r1.method = r2.method
    /\ r1.requestSource = r2.requestSource

\* C15: the ledger is append-only: in every step every Request stays at its
\* position with actionId, url, method and requestSource unchanged, every
\* part stays at its position with its id and type, every Action stays at
\* its position in its part, and no Action id leaves the set of known ids.
C15_LedgerAppendOnly ==
    [][/\ Len(requests') >= Len(requests)
       /\ \A i \in 1..Len(requests) : SameIdentity(requests'[i], requests[i])
       /\ Len(parts') >= Len(parts)
       /\ \A p \in 1..Len(parts) :
             /\ parts'[p].id = parts[p].id
             /\ parts'[p].type = parts[p].type
             /\ Len(parts'[p].actions) >= Len(parts[p].actions)
             /\ SubSeq(parts'[p].actions, 1, Len(parts[p].actions)) = parts[p].actions
       /\ actionIdSet \subseteq actionIdSet']_vars

\* the sweep has dropped the tracker entry of a call still unanswered, and
\* the ledger holds an Action, a terminal record and an unresolved one
C15_Witness ==
    /\ \E rid \in DOMAIN recordOf :
          calls[rid].phase = "observed" /\ rid \notin DOMAIN pendingRequests
    /\ \E i \in 1..Len(requests) : requests[i].status # StatusUnset
    /\ \E i \in 1..Len(requests) : requests[i].status = StatusUnset
    /\ \E p \in 1..Len(parts) : parts[p].actions # <<>>

\* the tracker entries the sweep removes in this step (a resolution removes
\* an entry too, and marks the call done)
SweptNow ==
    {rid \in DOMAIN pendingRequests :
        rid \notin DOMAIN pendingRequests' /\ calls'[rid].phase = "observed"}

\* C16: the sweep removes a tracker entry only if its request was observed
\* more than five minutes before the sweep, whatever the age of the cause
\* whose id the record carries.
C16_SweepsByObservationTime ==
    [][\A rid \in SweptNow : calls[rid].observedAt < now - StaleAfterMs]_vars

\* C17: addResourcePart with an id that is already in the ledger is a
\* no-op: the number of parts, and that part's type and action list, are the
\* same after the call as before.
C17_ExistingPartNoOp ==
    \A id \in ApiPartIds, t \in ApiPartTypes :
        HasPart(parts, id) =>
            LET after == AddResourcePart(parts, id, t)
                i == PartIndex(parts, id)
            IN /\ Len(after) = Len(parts)
               /\ after[i].id = id
               /\ after[i].type = parts[i].type
               /\ after[i].actions = parts[i].actions

\* the primary part was created by addAction and holds Actions, and a
\* resource part of another type exists: addResourcePart on either id, with
\* a type that differs from the part's, changes nothing
C17_Witness ==
    /\ HasPart(parts, MainPart)
    /\ parts[PartIndex(parts, MainPart)].actions # <<>>
    /\ parts[PartIndex(parts, MainPart)].type = "html"
    /\ HasPart(parts, PartId("js", 1))
    /\ AddResourcePart(parts, MainPart, "js") = parts
    /\ AddResourcePart(parts, PartId("js", 1), "other") = parts

\* C18: after any sequence of addAction and addResourcePart calls no two
\* parts of the ledger have the same id.
C18_PartIdsUnique ==
    \A i, j \in 1..Len(parts) : parts[i].id = parts[j].id => i = j

\* every id has been passed to both addAction and addResourcePart more than
\* once, and there is still one part per id
C18_Witness ==
    /\ Len(parts) = Cardinality(ApiPartIds)
    /\ \A id \in ApiPartIds : HasPart(parts, id)
    /\ TotalActions(parts) = ApiMaxActions

\* the action list of the primary document part ("part_html_main")
MainActions(ps) == IF HasPart(ps, MainPart) THEN ps[PartIndex(ps, MainPart)].actions ELSE <<>>

\* the host handles a reportInputAccess message in this step
ReportHandled ==
    /\ hostQueue # <<>>
    /\ NextMsg.k = "action"
    /\ hostQueue' = Tail(hostQueue)

\* C19: in every ledger state only part_html_main has a non-empty action
\* list: each part registered for an observed resource has none, and every
\* reported Action is appended to part_html_main.
C19_ActionsOnlyOnMainPart ==
    /\ [](\A p \in 1..Len(parts) : parts[p].id # MainPart => parts[p].actions = <<>>)
    /\ [][ReportHandled =>
            /\ Len(MainActions(parts')) = Len(MainActions(parts)) + 1
            /\ SubSeq(MainActions(parts'), 1, Len(MainActions(parts))) = MainActions(parts)
            /\ Last(MainActions(parts')).type = NextMsg.type
            /\ Last(MainActions(parts')).data = NextMsg.data
            /\ Truthy(NextMsg.id) => Last(MainActions(parts')).actionId = NextMsg.id]_vars

\* an Action was reported after a resource part had been registered: the
\* primary part is not the newest part, and it holds the Actions
C19_Witness ==
    /\ Len(parts) > 1
    /\ Last(parts).id # MainPart
    /\ Len(MainActions(parts)) > 1
    /\ parts[1].id # MainPart

\* C20: the hooks pass the call through unmodified: for fetch and for
\* XMLHttpRequest open and send the original function receives what the
\* caller supplied and the caller receives what the original returns, with
\* or without an active cause.
C20_HooksPassThrough ==
    hookCall.fn # "none" =>
        hookCall.result = Native(hookCall.fn, hookCall.supplied)

\* a wrapped handler is invoked in this step
WrapperEntered == Len(running') = Len(running) + 1

\* the handler that is executing issues a fetch in this step
HandlerFetches ==
    /\ running # <<>>
    /\ Len(calls') = Len(calls) + 1
    /\ Last(calls').resourceType = "fetch"

\* the call the executing handler issues is reported with its wrapper's id
ReportedWithWrapperId ==
    \E i \in 1..Len(hostQueue') :
        /\ i > Len(hostQueue)
        /\ hostQueue'[i] = MappingMsg(Last(calls').url, Last(running))

\* the invocation of a wrapped handler: a new cause is on top of the stack
\* and current, and its Action is on its way, when the handler starts
PushedAndReported ==
    LET id == Last(running') IN
    /\ id \notin {actionIdStack[i] : i \in 1..Len(actionIdStack)}
    /\ actionIdStack' = Append(actionIdStack, id)
    /\ currentActionId' = id
    /\ hostQueue' # <<>>
    /\ Last(hostQueue').k = "action"
    /\ Last(hostQueue').id = id
    /\ Len(hostQueue') = Len(hostQueue) + 1

\* no pop is scheduled for a handler that is still executing, and the
\* return of a handler schedules the pop of its cause
PopAfterReturn ==
    /\ \A i \in 1..Len(running'), j \in 1..Len(timers') : running'[i] # timers'[j]
    /\ (Len(running') < Len(running)) => timers' = Append(timers, Last(running))

\* C21 as stated: a fetch issued by the executing handler with no value read
\* since the handler started is reported with the wrapper's cause id.  No
\* value read since the start: every cause above the wrapper's on the stack
\* belongs to a wrapped handler (its Action type is not "input.value").
PushedByValueRead(id) ==
    \/ \E i \in 1..Len(hostQueue) :
          hostQueue[i].k = "action" /\ hostQueue[i].id = id /\ hostQueue[i].type = "input.value"
    \/ \E p \in 1..Len(parts) : \E a \in 1..Len(parts[p].actions) :
          parts[p].actions[a].actionId = id /\ parts[p].actions[a].type = "input.value"

\* the position of the executing handler's cause on the stack
WrapperPosition == CHOOSE i \in 1..Len(actionIdStack) : actionIdStack[i] = Last(running)

NoValueReadSinceEntry ==
    \A i \in 1..Len(actionIdStack) : i > WrapperPosition => ~PushedByValueRead(actionIdStack[i])

WrappedNow ==
    LET reg == Last(registered') IN
    \/ reg.listener = "function" /\ reg.wrapper # NoWrapper
    \/ reg.listener = "object" /\ handleEvent' # handleEvent

\* the pairs the claim names: field elements with change, input, keyup or
\* keydown, and forms with submit
FieldEventPair(target, type) ==
    \/ (target \in {"input", "textarea", "select"}
          /\ type \in {"change", "input", "keyup", "keydown"})
    \/ (target = "form" /\ type = "submit")

\* C22: a registered handler is wrapped if and only if the target is an
\* input, textarea or select element and the event is change, input, keyup
\* or keydown, or the target is a form and the event is submit; the
\* invocation of a handler registered for any other pair pushes no cause and
\* reports no Action.
C22_WrappedIffFieldEvent ==
    [][/\ (Len(registered') = Len(registered) + 1 /\ Last(registered').listener # "none") =>
            (WrappedNow <=> FieldEventPair(Last(registered').target, Last(registered').type))
       /\ (/\ dispatched'.n = dispatched.n + 1
           /\ ~FieldEventPair(dispatched'.target, dispatched'.type)) =>
               /\ actionIdStack' = actionIdStack
               /\ currentActionId' = currentActionId
               /\ hostQueue' = hostQueue]_vars

\* the outcomes the ledger records: a status of -1, -999 or an HTTP code,
\* an actionId that is a cause's id or a synthetic http_ / failed_ id, and a
\* tracker that refers to records of the ledger only
RecordedAsData ==
    /\ \A i \in 1..Len(requests) :
          /\ requests[i].status \in {StatusUnset, StatusFailed} \cup HttpCodes
          /\ requests[i].actionId.p \in {"action", "http", "failed"}
    /\ \A rid \in DOMAIN pendingRequests : pendingRequests[rid] \in 1..Len(requests)

\* every host handler can run to completion on the event it is given
HandlersComplete ==
    /\ hostQueue # <<>> =>
          ENABLED (HostReportInputAccess \/ HostReportRequestMapping \/ HostRequest)
    /\ \A rid \in 1..Len(calls) :
          calls[rid].phase = "observed" =>
              /\ \A c \in HttpCodes : ENABLED HostResponse(rid, c)
              /\ ENABLED HostRequestFailed(rid)
    /\ \A u \in Urls :
          /\ \A c \in HttpCodes : ENABLED HostResponseUnseen(u, c)
          /\ ENABLED HostRequestFailedUnseen(u)
    /\ ENABLED Sweep

\* C23: correlation failures raise no error: in every order of mapping,
\* request, response, requestfailed and sweep events every handler runs to
\* completion, and the outcome is in the ledger as data only (a synthetic
\* actionId, status -1 or status -999).
C23_FailuresAreData == RecordedAsData /\ HandlersComplete

\* a failure and a response arrived for operations without a tracked record:
\* a failed_ record and an unresolved record are in the ledger, the tracker
\* is empty and the host goes on
C23_Witness ==
    /\ \E i \in 1..Len(requests) :
          requests[i].actionId.p = "failed" /\ requests[i].status = StatusFailed
    /\ \E i \in 1..Len(requests) :
          requests[i].actionId.p = "http" /\ requests[i].status = StatusUnset
    /\ \E rid \in 1..Len(calls) :
          calls[rid].phase = "done" /\ RecordOfCall(rid).status = StatusUnset
    /\ DOMAIN pendingRequests = {}

\* C24: navigation is issued only after the finish bridge and both
\* monitors' setup have completed; if one of the setup statements fails,
\* start has ended with an error, nothing was navigated to and nothing saved.
C24_SetupBeforeNavigation ==
    /\ navigated => (pc \notin SetupSteps \cup {"idle"} /\ failedAt \notin SetupSteps)
    /\ failedAt \in SetupSteps => (pc = "error" /\ ~navigated /\ saves = 0)

\* the setup of the second monitor failed: start has ended in error before
\* any navigation
C24_Witness ==
    /\ failedAt = "requestSetup"
    /\ pc = "error"
    /\ ~navigated
    /\ saves = 0

\* finishScan has been called whenever results were saved or the browser
\* was closed, and results are saved at most once
SavedOnlyAfterFinish ==
    /\ (saves > 0 \/ closed) => (scanFinished /\ finishCalls > 0)
    /\ saves <= 1

\* a call of finishScan after the first changes nothing of the scan
RepeatedFinishNoEffect ==
    (finishCalls' > finishCalls /\ finishCalls > 0)
        => UNCHANGED <<pc, failedAt, scanFinished, navigated, saves, closed>>

LaterNotVisible ==
    (results.kind # "none" /\ results' = results /\ writes' = writes)
        => View(results)' = View(results)

\* an assignment to the returned value leaves the ledger as it was
WriteLeavesLedger == writes' > writes => Ledger' = Ledger

\* C26 as stated: getResults returns a snapshot: later actions, requests and
\* status changes are not visible through the returned value, and changing
\* the returned value does not change the ledger.
C26_ResultsAreSnapshot == [][LaterNotVisible /\ WriteLeavesLedger]_vars

\* an assignment to the returned value changes the ledger
WriteChangesLedger ==
    writes' > writes
        => \E i \in 1..Len(requests) :
               /\ requests[i].status # requests'[i].status
               /\ View(results)'.requests[i].status = requests'[i].status

\* C26: getResults returns the ledger object itself: whatever is recorded
\* after the call is visible through the returned value, and an assignment
\* to the returned value is an assignment to the ledger.
C26_ResultsAreLedger ==
    /\ [](results.kind # "none" => View(results) = Ledger)
    /\ [][WriteChangesLedger]_vars

\* a caller holds results taken when the ledger was empty, and the ledger
\* has since got a part and a request record
C26_Witness ==
    /\ results.kind # "none"
    /\ results.ledger.requests = <<>>
    /\ results.ledger.parts = <<>>
    /\ Len(requests) > 0
    /\ Len(parts) > 0

\* the response or failure event of call rid arrives while its transport
\* identifier is tracked
TrackedOutcome(rid) ==
    /\ calls[rid].phase = "observed"
    /\ calls'[rid].phase = "done"
    /\ rid \in DOMAIN pendingRequests

\* C27: a response (a failure) for a tracked transport identifier sets the
\* status of exactly the tracked record to the response code (to -999),
\* removes the entry from the tracker and leaves every other record, every
\* other tracker entry and the number of records as they were.
C27_TrackedOutcomeUpdatesOneRecord ==
    [][\A rid \in 1..Len(calls) :
          TrackedOutcome(rid) =>
              /\ calls'[rid].outcome \in HttpCodes \cup {StatusFailed}
              /\ requests' = [requests EXCEPT
                                  ![pendingRequests[rid]].status = calls'[rid].outcome]
              /\ DOMAIN pendingRequests' = DOMAIN pendingRequests \ {rid}
              /\ \A q \in DOMAIN pendingRequests' : pendingRequests'[q] = pendingRequests[q]
      ]_vars

\* a failed call whose record carries -999 and is no longer tracked, while
\* the record of another call to the same url is still tracked and unresolved
C27_Witness ==
    \E rid, other \in 1..Len(calls) :
        /\ rid # other
        /\ calls[rid].url = calls[other].url
        /\ calls[rid].phase = "done"
        /\ calls[rid].outcome = StatusFailed
        /\ rid \notin DOMAIN pendingRequests
        /\ requests[recordOf[rid]].status = StatusFailed
        /\ other \in DOMAIN pendingRequests
        /\ requests[pendingRequests[other]].status = StatusUnset
        /\ Len(requests) = 2

\* open is called: the request records the cause current at that moment
OpenCapturesCurrent ==
    (xhr'.state = "opened" /\ xhr' # xhr) => xhr'.capturedActionId = currentActionId

\* between open and send nothing but another open changes what was captured
CapturedUntilSend ==
    (xhr.state = "opened" /\ xhr' # xhr)
        => (xhr'.state = "opened" \/ Len(calls') = Len(calls) + 1)

\* the mapping reports among the messages a step put in flight
NewMappings ==
    SelectSeq(SubSeq(hostQueue', Len(hostQueue) + 1, Len(hostQueue')),
              LAMBDA m : m.k = "mapping")

\* send is called on the opened request
SendStep ==
    /\ xhr.state = "opened"
    /\ Len(calls') = Len(calls) + 1
    /\ calls'[Len(calls')].resourceType = "xhr"

\* C28: for open-then-send the cause is read once, at open: send reports
\* the id that was current at open, whatever is current at send, and reports
\* no mapping for a request opened with no current cause.
C28_CauseReadAtOpen ==
    [][/\ OpenCapturesCurrent
       /\ CapturedUntilSend
       /\ SendStep =>
              NewMappings = IF xhr.capturedActionId = NoId
                            THEN <<>>
                            ELSE <<MappingMsg(xhr.requestUrl, xhr.capturedActionId)>>
      ]_vars

\* an open-then-send call sent while a cause other than the one captured at
\* open was current, and another opened with no cause and sent under a cause
C28_Witness ==
    \E rid, other \in 1..Len(calls) :
        /\ calls[rid].resourceType = "xhr"
        /\ rid \in DOMAIN requestActionMap
        /\ issuedUnder[rid] # NoId
        /\ requestActionMap[rid] # issuedUnder[rid]
        /\ calls[other].resourceType = "xhr"
        /\ other \notin DOMAIN requestActionMap
        /\ issuedUnder[other] # NoId

\* the entries of a store of more than SweepMappingRetain entries that were
\* inserted last, in insertion order
LastInserted(m) ==
    [i \in 1..SweepMappingRetain |-> m[Len(m) - SweepMappingRetain + i]]

\* what a sweep makes of the store as it is now
SweepOutcome ==
    LET m == urlActionMappings
        after == SweepMappings(m)
    IN /\ Len(after) <= SweepMappingThreshold
       /\ Len(m) > SweepMappingThreshold => after = LastInserted(m)
       /\ Len(m) <= SweepMappingThreshold => after = m

\* C29: after every periodic sweep the Mapping Store holds at most 50
\* entries: a store of more than 50 entries is cut to its 25 last-inserted
\* entries, a store of 50 or fewer is left as it is.
C29_SweepKeepsLastInserted ==
    /\ [](SweepOutcome)
    /\ [][Len(urlActionMappings') < Len(urlActionMappings)
              => /\ Len(urlActionMappings) > SweepMappingThreshold
                 /\ urlActionMappings' = LastInserted(urlActionMappings)]_vars

\* a sweep met a store of more than 50 entries: the store holds the 25
\* targets reported last, the oldest of them first
C29_Witness ==
    /\ Cardinality(ReportedTargets) > SweepMappingThreshold
    /\ Len(urlActionMappings) = SweepMappingRetain
    /\ urlActionMappings[SweepMappingRetain].url = Cardinality(ReportedTargets)
    /\ urlActionMappings[1].url = Cardinality(ReportedTargets) - SweepMappingRetain + 1

\* the non-document resources the host has observed a request for: a url,
\* requested as a resource of some type
ObservedResources ==
    {<<calls[rid].url, ResourceTypeMap(calls[rid].resourceType)>> :
        rid \in {r \in 1..Len(calls) :
                    /\ calls[r].phase \in {"observed", "done"}
                    /\ ResourceTypeMap(calls[r].resourceType) # "html"}}

\* the parts created for resources
ResourceParts == {i \in 1..Len(parts) : parts[i].id # MainPart}

\* C30: the ledger holds a single ResourcePart for each non-document resource
\* the host observed, however often that resource was requested: a repeated
\* request of a url adds no part.
C30_OnePartPerResource == Cardinality(ResourceParts) <= Cardinality(ObservedResources)

\* C31: the current cause is the top entry of the cause stack when the
\* stack is non-empty and undefined when it is empty.
C31_CurrentIsTop ==
    IF actionIdStack = <<>>
    THEN currentActionId = NoId
    ELSE currentActionId = Last(actionIdStack)

\* two causes were pushed, the timer of the first fired without effect and
\* the timer of the second popped it: the first cause is on top and current
C31_Witness ==
    /\ idCount >= 2
    /\ timers = <<>>
    /\ Len(actionIdStack) = 1
    /\ actionIdStack[1].r = 1
    /\ currentActionId = actionIdStack[1]

\* the host observes a request, a response or a failure of some call
ObserverStep == \E rid \in 1..Len(calls) : calls'[rid].phase # calls[rid].phase

\* an entry of the Mapping Store is gone after the step
EntryRemoved == \E i \in 1..Len(urlActionMappings) :
                    ~MapHas(urlActionMappings', urlActionMappings[i].url)

\* the step is a report that overflows the store, or a sweep over its threshold
EvictingStep ==
    \/ /\ hostQueue # <<>>
       /\ NextMsg.k = "mapping"
       /\ hostQueue' = Tail(hostQueue)
       /\ Len(MapSet(urlActionMappings, NextMsg.url, NextMsg.id)) > MappingCapacity
    \/ /\ Len(urlActionMappings) > SweepMappingThreshold
       /\ hostQueue' = hostQueue

\* the request event of call rid is observed in this step
RequestObserved(rid) == calls[rid].phase = "sent" /\ calls'[rid].phase = "observed"

\* C32: observing a request, a response or a failure leaves the Mapping
\* Store as it was; an entry leaves the store only through the eviction of
\* an overflowing report or through the sweep; a request to a url that has an
\* entry is recorded with that entry's cause id.
C32_ObserversLeaveStore ==
    [][/\ ObserverStep => urlActionMappings' = urlActionMappings
       /\ EntryRemoved => EvictingStep
       /\ \A rid \in 1..Len(calls) :
             (RequestObserved(rid) /\ MapHas(urlActionMappings, calls[rid].url))
                 => requests'[Len(requests')].actionId
                        = MapGet(urlActionMappings, calls[rid].url)
      ]_vars

\* a caused call was observed and resolved, the entry of its url is still in
\* the store, and a later request to that url, issued with no current cause,
\* was recorded with the same cause id
C32_Witness ==
    \E r1, r2 \in 1..Len(calls) :
        /\ r1 < r2
        /\ calls[r1].url = calls[r2].url
        /\ calls[r1].phase = "done"
        /\ calls[r2].phase = "observed"
        /\ issuedUnder[r2] = NoId
        /\ requests[recordOf[r1]].actionId.p = "action"
        /\ requests[recordOf[r2]].actionId = requests[recordOf[r1]].actionId
        /\ MapHas(urlActionMappings, calls[r1].url)
        /\ MapGet(urlActionMappings, calls[r1].url) = requests[recordOf[r1]].actionId

\* the ids of the Actions in the ledger
LedgerActionIds ==
    UNION {{parts[p].actions[a].actionId : a \in 1..Len(parts[p].actions)} :
              p \in 1..Len(parts)}

\* an actionId the host made up for a request it could not correlate
IsSynthetic(id) == id.p \in {"http", "failed"}

\* C33: every Request whose actionId is not synthetic carries the id of an
\* Action that was in the ledger before the Request was added, and is
\* counted in linkedRequests.
C33_CausedRequestHasAction ==
    /\ [](\A i \in 1..Len(requests) :
             ~IsSynthetic(requests[i].actionId)
                 => /\ requests[i].actionId \in LedgerActionIds
                    /\ requests[i].actionId \in actionIdSet)
    /\ [](ValidateLinkage(requests, actionIdSet).linkedRequests
             = Cardinality({i \in 1..Len(requests) : ~IsSynthetic(requests[i].actionId)}))
    /\ [][Len(requests') > Len(requests)
             => (~IsSynthetic(requests'[Len(requests')].actionId)
                    => /\ requests'[Len(requests')].actionId \in LedgerActionIds
                       /\ requests'[Len(requests')].actionId \in actionIdSet)]_vars

\* a request recorded under one cause is linked, and the mapping report and
\* the request of a call issued under a second cause are in flight, the
\* Action of that cause being in the ledger already
C33_Witness ==
    /\ Len(requests) = 1
    /\ ~IsSynthetic(requests[1].actionId)
    /\ ValidateLinkage(requests, actionIdSet).linkedRequests = 1
    /\ Len(hostQueue) = 2
    /\ hostQueue[1].k = "mapping"
    /\ hostQueue[1].id # requests[1].actionId
    /\ hostQueue[1].id \in LedgerActionIds
    /\ hostQueue[2].k = "request"

\* the network operations the host has observed a request event for
ObservedCalls == {rid \in 1..Len(calls) : calls[rid].phase \in {"observed", "done"}}

\* C34: each network operation the host observes has exactly one Request
\* record in the ledger: a failure whose request event was recorded adds no
\* second record, also after the sweep removed the tracker entry.
C34_OneRecordPerOperation == Len(requests) = Cardinality(ObservedCalls)

\* the innermost executing invocation of a wrapped handler ends in this step
InvocationEnds == running # <<>> /\ running' = ButLast(running)

\* C35: every invocation of a wrapped handler schedules a guarded pop for
\* the cause it pushed, also when the original handler throws: when an
\* invocation ends, a timer for its cause is pending.
C35_PopScheduledForEveryInvocation ==
    [][InvocationEnds =>
          /\ timers' = Append(timers, Last(running))
          /\ \E i \in 1..Len(timers') : timers'[i] = Last(running)]_vars

\* fetch is called in this step
FetchStep ==
    /\ Len(calls') = Len(calls) + 1
    /\ calls'[Len(calls')].resourceType = "fetch"

\* open is called in this step while the cause stack is empty
OpenStepNoCause ==
    /\ xhr'.state = "opened"
    /\ xhr' # xhr
    /\ actionIdStack = <<>>

\* the step hands the new call to the transport and sends nothing else
DispatchedUnreported ==
    /\ hostQueue' = Append(hostQueue, RequestMsg(Len(calls) + 1))
    /\ requestActionMap' = requestActionMap
    /\ urlActionMappings' = urlActionMappings

\* C36: a fetch called while the cause stack is empty, and a send of an
\* XMLHttpRequest opened while it was empty, report no mapping (the Mapping
\* Store gets nothing to change) and hand the call to the transport.
C36_UncausedCallDispatchedUnreported ==
    [][/\ (FetchStep /\ actionIdStack = <<>>) => DispatchedUnreported
       /\ OpenStepNoCause => xhr'.capturedActionId = NoId
       /\ (SendStep /\ xhr.capturedActionId = NoId) => DispatchedUnreported
      ]_vars

\* after a cause has come and gone, a fetch and an open-then-send call were
\* issued with the stack empty: both reached the host's request observer and
\* the Mapping Store is empty
C36_Witness ==
    /\ idCount >= 1
    /\ actionIdStack = <<>>
    /\ Len(calls) = 2
    /\ {calls[1].resourceType, calls[2].resourceType} = {"fetch", "xhr"}
    /\ issuedUnder[1] = NoId
    /\ issuedUnder[2] = NoId
    /\ calls[1].phase = "observed"
    /\ calls[2].phase = "observed"
    /\ requestActionMap = <<>>
    /\ urlActionMappings = <<>>

\* C37: every Request record held in the tracker has status -1: a record
\* leaves the tracker no later than the step that gives it a terminal status.
C37_TrackedAreUnresolved ==
    \A rid \in DOMAIN pendingRequests :
        requests[pendingRequests[rid]].status = StatusUnset

====
